---- MODULE Spec2Model ----
(***************************************************************************)
(* Verification model of the streaming decision-tree repository:           *)
(*   - the HDDM_W change detector (creme/drift/hddm_w.py),                  *)
(*   - the Hoeffding tree regressor's learn_one / _attempt_to_split         *)
(*     (creme/tree/hoeffding_tree_regressor.py) with the leaf               *)
(*     (de)activation of creme/tree/hoeffding_adaptive_tree_classifier.py.  *)
(*                                                                         *)
(* Floating point is modelled in fixed point: a real r is the integer      *)
(* floor(r * Scale).  float("inf") is the sentinel Inf, larger than every  *)
(* finite value the detector computes.                                     *)
(***************************************************************************)
EXTENDS Integers, Sequences, FiniteSets, TLC

(***************************************************************************)
(* Bounds of the exploration and fixed-point precision.                    *)
(***************************************************************************)
Scale == 10000          \* fixed-point unit: 1.0 is Scale
MaxSamples == 45        \* updates in a run whose bit changes
MaxRun == 130           \* updates in a run of one constant bit
MaxSwitches == 1        \* changes of the input bit in a run
MaxResets == 1          \* explicit reset() calls in a run
NZeros == 1000          \* Scenario A: leading zeros
NOnes == 1000           \* Scenario A: trailing ones

(***************************************************************************)
(* Program constants of HDDM_W (defaults of __init__).                     *)
(***************************************************************************)
LambdaPct == 5              \* lambda_option = 0.050, in hundredths
LnInvDriftE4 == 69078       \* ln(1 / drift_confidence) = ln(1000), times 10^4
LnInvWarningE4 == 52983     \* ln(1 / warning_confidence) = ln(200), times 10^4
Inf == 1000000000           \* float("inf")

Bits == {0, 1}

VARIABLES
    hd,          \* the HDDM_W instance: monitors, cut points, width, delay, flags
    two_sided,   \* HDDM_W.two_sided_test
    last,        \* the last call on the detector: op, value, the detector before it,
                 \* and the summary of the bits since the previous reset, this one included
    fed,         \* summary of the bits fed since the last reset() (explicit or inside update)
    reset_kind,  \* "fresh", "explicit" or "drift": what produced the last cleared state
    nresets,     \* number of explicit reset() calls
    nfed,        \* Scenario A: number of update calls so far
    first_drift, \* Scenario A: index (from 1) of the first update returning inDrift, 0 if none
    ht,          \* the Hoeffding tree: its nodes by path from the root, and its counters
    remove_poor_atts,  \* the tree's remove_poor_atts option
    pr,          \* the last prediction asked of the tree, cleared by every update of it
    ch,          \* a ClassifierChain or RegressorChain: its order and its models
    cl,          \* the last call on the chain: its arguments as the caller holds them
                 \* after the call, what it returned, and what each model was given
    am,          \* the alternate-subtree manager of one split node
    ob,          \* a NumericAttributeClassObserverGaussian
    oq,          \* the last call on the observer
    tw,          \* two trees built with the same configuration and fed the same examples
    tl,          \* the last call on the tree: what it did, on which leaf, with which inputs
    nlearn       \* number of learn_one calls so far

detVars == <<hd, two_sided, last, fed, reset_kind, nresets, nfed, first_drift>>

treeVars == <<ht, remove_poor_atts, tl, nlearn, pr>>

chainVars == <<ch, cl>>

extraVars == <<am, ob, oq, tw>>

vars == <<detVars, treeVars, chainVars, extraVars>>

(***************************************************************************)
(* Arithmetic helpers.                                                     *)
(***************************************************************************)
RECURSIVE SqrtNewton(_, _)
SqrtNewton(n, x) ==
    \* Newton's iteration downwards from x >= floor(sqrt(n)), n > 0
    LET y == (x + n \div x) \div 2
    IN  IF y >= x THEN x ELSE SqrtNewton(n, y)

\* floor(sqrt(n)) for 0 <= n < 2^31
Sqrt(n) ==
    IF n = 0 THEN 0
    ELSE SqrtNewton(n, IF n < 65536 THEN 256
                       ELSE IF n < 1048576 THEN 1024
                       ELSE IF n < 16777216 THEN 4096
                       ELSE IF n < 268435456 THEN 16384
                       ELSE 46340)

LnInv(confidence) ==
    \* log(1 / confidence) in fixed point; confidence is "drift" or "warning"
    IF confidence = "drift" THEN (LnInvDriftE4 * Scale) \div 10000
                            ELSE (LnInvWarningE4 * Scale) \div 10000

\* sqrt(ibc_sum * log(1 / confidence) / 2) in fixed point
HoeffdingEps(ibc_sum, confidence) == Sqrt((ibc_sum * LnInv(confidence)) \div 2)

(***************************************************************************)
(* HDDM_W                                                                  *)
(***************************************************************************)
SampleInfo ==
    [EWMA_estimator |-> -Scale, independent_bounded_condition_sum |-> 0]

\* The EWMA recurrence applied to one accumulator: first value, or decay.
EwmaStep(s, value) ==
    IF s.EWMA_estimator < 0
    THEN [EWMA_estimator |-> value * Scale,
          independent_bounded_condition_sum |-> Scale]
    ELSE [EWMA_estimator |->
              (LambdaPct * value * Scale + (100 - LambdaPct) * s.EWMA_estimator) \div 100,
          independent_bounded_condition_sum |->
              (LambdaPct * LambdaPct * Scale
                 + (100 - LambdaPct) * (100 - LambdaPct)
                     * s.independent_bounded_condition_sum) \div 10000]

\* Mutant: a reset that keeps the increase cut point.
Reset_KeepsCutpoint(d) ==
    [d EXCEPT !.total = SampleInfo,
              !.sample1_decr_monitor = SampleInfo,
              !.sample1_incr_monitor = SampleInfo,
              !.sample2_decr_monitor = SampleInfo,
              !.sample2_incr_monitor = SampleInfo,
              !.decr_cutpoint = Inf,
              !.width = 0,
              !.delay = 0,
              !.in_concept_change = FALSE,
              !.in_warning_zone = FALSE]

\* reset(): every accumulator cleared, both cut points infinite, flags down.
\* The attribute estimation is not assigned by reset().
reset(d) ==
    [d EXCEPT !.total = SampleInfo,
              !.sample1_decr_monitor = SampleInfo,
              !.sample1_incr_monitor = SampleInfo,
              !.sample2_decr_monitor = SampleInfo,
              !.sample2_incr_monitor = SampleInfo,
              !.incr_cutpoint = Inf,
              !.decr_cutpoint = Inf,
              !.width = 0,
              !.delay = 0,
              !.in_concept_change = FALSE,
              !.in_warning_zone = FALSE]

\* __init__: the same assignments, and estimation = None (the empty sequence).
HDDM_W_init ==
    [total |-> SampleInfo,
     sample1_decr_monitor |-> SampleInfo,
     sample1_incr_monitor |-> SampleInfo,
     sample2_decr_monitor |-> SampleInfo,
     sample2_incr_monitor |-> SampleInfo,
     incr_cutpoint |-> Inf,
     decr_cutpoint |-> Inf,
     width |-> 0,
     delay |-> 0,
     in_concept_change |-> FALSE,
     in_warning_zone |-> FALSE,
     estimation |-> << >>]

\* Mutant: the bound is taken on the wrong side of the comparison.
DetectMeanIncrement_NoBound(sample1, sample2, confidence) ==
    IF sample1.EWMA_estimator < 0 \/ sample2.EWMA_estimator < 0
    THEN FALSE
    ELSE LET ibc_sum == sample1.independent_bounded_condition_sum
                          + sample2.independent_bounded_condition_sum
             bound == HoeffdingEps(ibc_sum, confidence)
         IN  sample2.EWMA_estimator - sample1.EWMA_estimator + bound > 0

_detect_mean_increment(sample1, sample2, confidence) ==
    IF sample1.EWMA_estimator < 0 \/ sample2.EWMA_estimator < 0
    THEN FALSE
    ELSE LET ibc_sum == sample1.independent_bounded_condition_sum
                          + sample2.independent_bounded_condition_sum
             bound == HoeffdingEps(ibc_sum, confidence)
         IN  sample2.EWMA_estimator - sample1.EWMA_estimator > bound

\* Mutant: the two samples passed in the order of the decrease test.
MonitorMeanIncr_Swapped(d, confidence) ==
    _detect_mean_increment(d.sample2_incr_monitor, d.sample1_incr_monitor, confidence)

_monitor_mean_incr(d, confidence) ==
    _detect_mean_increment(d.sample1_incr_monitor, d.sample2_incr_monitor, confidence)

_monitor_mean_decr(d, confidence) ==
    _detect_mean_increment(d.sample2_decr_monitor, d.sample1_decr_monitor, confidence)

_update_incr_statistics(d, value, confidence) ==
    LET bound == HoeffdingEps(d.total.independent_bounded_condition_sum, confidence)
    IN  IF d.total.EWMA_estimator + bound < d.incr_cutpoint
        THEN [d EXCEPT !.incr_cutpoint = d.total.EWMA_estimator + bound,
                       !.sample1_incr_monitor = d.total,
                       !.sample2_incr_monitor = SampleInfo,
                       !.delay = 0]
        ELSE [d EXCEPT !.delay = d.delay + 1,
                       !.sample2_incr_monitor = EwmaStep(d.sample2_incr_monitor, value)]

\* Mutant: the decrease cut point is taken where the lower bound falls below it.
UpdateDecrStatistics_CutpointBelow(d, value, confidence) ==
    LET epsilon == HoeffdingEps(d.total.independent_bounded_condition_sum, confidence)
    IN  IF d.total.EWMA_estimator - epsilon < d.decr_cutpoint
        THEN [d EXCEPT !.decr_cutpoint = d.total.EWMA_estimator - epsilon,
                       !.sample1_decr_monitor = d.total,
                       !.sample2_decr_monitor = SampleInfo]
        ELSE [d EXCEPT !.sample2_decr_monitor = EwmaStep(d.sample2_decr_monitor, value)]

_update_decr_statistics(d, value, confidence) ==
    LET epsilon == HoeffdingEps(d.total.independent_bounded_condition_sum, confidence)
    IN  IF d.total.EWMA_estimator - epsilon > d.decr_cutpoint
        THEN [d EXCEPT !.decr_cutpoint = d.total.EWMA_estimator - epsilon,
                       !.sample1_decr_monitor = d.total,
                       !.sample2_decr_monitor = SampleInfo]
        ELSE [d EXCEPT !.sample2_decr_monitor = EwmaStep(d.sample2_decr_monitor, value)]

\* update, lines 107-119: width, total, and the increase statistics.
UpdateHead(d, value) ==
    _update_incr_statistics(
        [d EXCEPT !.width = d.width + 1, !.total = EwmaStep(d.total, value)],
        value, "drift")

\* Mutant: the warning level is tested before the drift level.
UpdateFlags_WarningFirst(d) ==
    IF _monitor_mean_incr(d, "warning")
    THEN [d EXCEPT !.in_concept_change = FALSE, !.in_warning_zone = TRUE]
    ELSE IF _monitor_mean_incr(d, "drift")
    THEN [reset(d) EXCEPT !.in_concept_change = TRUE, !.in_warning_zone = FALSE]
    ELSE [d EXCEPT !.in_concept_change = FALSE, !.in_warning_zone = FALSE]

\* update, lines 120-129: the increase test decides the two flags.
UpdateFlags(d) ==
    IF _monitor_mean_incr(d, "drift")
    THEN [reset(d) EXCEPT !.in_concept_change = TRUE, !.in_warning_zone = FALSE]
    ELSE IF _monitor_mean_incr(d, "warning")
    THEN [d EXCEPT !.in_concept_change = FALSE, !.in_warning_zone = TRUE]
    ELSE [d EXCEPT !.in_concept_change = FALSE, !.in_warning_zone = FALSE]

\* update, lines 131-134: the decrease statistics, the two-sided test, estimation.
UpdateTail(d, value, two) ==
    LET d1 == _update_decr_statistics(d, value, "drift")
        d2 == IF two /\ _monitor_mean_decr(d1, "drift") THEN reset(d1) ELSE d1
    IN  [d2 EXCEPT !.estimation = <<d2.total.EWMA_estimator>>]

\* update(value): the detector after the call.
update(d, value, two) == UpdateTail(UpdateFlags(UpdateHead(d, value)), value, two)

\* The tuple update returns.
Returned(d) == <<d.in_concept_change, d.in_warning_zone>>

\* The fields reset() clears (everything but the flags and estimation).
Core(d) ==
    [total |-> d.total,
     sample1_decr_monitor |-> d.sample1_decr_monitor,
     sample1_incr_monitor |-> d.sample1_incr_monitor,
     sample2_decr_monitor |-> d.sample2_decr_monitor,
     sample2_incr_monitor |-> d.sample2_incr_monitor,
     incr_cutpoint |-> d.incr_cutpoint,
     decr_cutpoint |-> d.decr_cutpoint,
     width |-> d.width,
     delay |-> d.delay]

(***************************************************************************)
(* The Hoeffding tree regressor.                                           *)
(*                                                                         *)
(* A node is addressed by its path from the root: the sequence of branch   *)
(* indices (from 0) followed to reach it.  The tree is the function from   *)
(* the paths of its nodes to the nodes; a tree whose root is None is the   *)
(* empty function.  Merits are small naturals; the Hoeffding bound is in   *)
(* hundredths.                                                             *)
(***************************************************************************)
MaxMerit == 1           \* largest merit of a split suggestion
MaxDepth == 2           \* the tree's max_depth option
GracePeriod == 2        \* the tree's grace_period option
MaxLearn == 5           \* learn_one calls in a run
SplitLearns == 4        \* learn_one calls in a run that records the split inputs
PredictLearns == 4      \* learn_one calls in the runs with predictions
LeafLearns == 4          \* learn_one calls in the runs of the memory governor
TwinLearns == 2          \* learn_one calls on each of two trees
DriftWindowThreshold == 2   \* drift_window_threshold
MaxRouted == 6          \* examples routed through a split node with a manager
MaxAlternates == 2      \* alternates a split node starts
MaxObserved == 4        \* weight an attribute observer takes in before its last update
ChainLen == 2           \* outputs of a chain
ChainCalls == 3         \* learn_one calls on a chain
MaxFound == 2           \* found nodes in the list predict_proba_one combines
MaxBranch == 1          \* largest branch index of a found node
EpsUnit == 100          \* the Hoeffding bound 1.0
TieThreshold == 5       \* tie_threshold = 0.05, in hundredths
SampleWeight == 1       \* sample_weight = 1.
AltBranch == 0 - 999    \* parent_branch of the root of an alternate tree

\* Instances have two categorical attributes of two values each.
Atts == {1, 2}
Vals == {1, 2}
Merits == 0 .. MaxMerit
Ys == {0, 1}
Instances == [Atts -> Vals]

\* Values _hoeffding_bound can return: 0 (zero range), the tie threshold
\* itself, and a bound above it.
Epsilons == {0, TieThreshold, 60}

NoStats == [n |-> 0, sum |-> 0]

\* LearningNode / SplitNode objects.
Node(kind, depth, stats) ==
    [kind |-> kind, depth |-> depth, n |-> stats.n, sum |-> stats.sum,
     last_split_attempt_at |-> IF kind = "active" THEN stats.n ELSE 0,
     att |-> 0, vals |-> << >>, disabled |-> {}]

Stats(nd) == [n |-> nd.n, sum |-> nd.sum]

\* A variant that gives every new leaf the depth of a root.
NewLearningNode_NoParent(initial_stats, parent, is_active) ==
    Node(IF is_active THEN "active" ELSE "inactive", 0, initial_stats)

\* parent is << >> for None and <<node>> for a node.
_new_learning_node(initial_stats, parent, is_active) ==
    Node(IF is_active THEN "active" ELSE "inactive",
         IF parent # << >> THEN parent[1].depth + 1 ELSE 0,
         initial_stats)

_new_split_node(split_test, target_stats, depth) ==
    [Node("split", depth, target_stats) EXCEPT !.att = split_test.att,
                                                !.vals = split_test.vals]

EmptyTree ==
    [nodes |-> << >>, n_active_leaves |-> 0, n_inactive_leaves |-> 0,
     n_decision_nodes |-> 0, growth_allowed |-> TRUE]

\* The parent of the node at path p, as _new_learning_node takes it.
ParentOf(nodes, p) == IF p = << >> THEN << >> ELSE <<nodes[SubSeq(p, 1, Len(p) - 1)]>>

\* self._tree_root = nd, or parent.set_child(parent_branch, nd).
set_child(nodes, p, nd) ==
    [q \in DOMAIN nodes \cup {p} |-> IF q = p THEN nd ELSE nodes[q]]

\* split_test.branch_for_instance(x): the branch of x's value, -1 if it has none.
branch_for_instance(nd, x) ==
    IF \E i \in 1 .. Len(nd.vals) : nd.vals[i] = x[nd.att]
    THEN (CHOOSE i \in 1 .. Len(nd.vals) : nd.vals[i] = x[nd.att]) - 1
    ELSE 0 - 1

\* FoundNode(node, parent, parent_branch): found is "leaf" when node is a
\* learning node, "split" when it is a split node without a branch for x, and
\* "none" when the branch exists and has no child; path is node's path.
RECURSIVE filter_instance_to_leaf(_, _, _)
filter_instance_to_leaf(nodes, p, x) ==
    IF p \notin DOMAIN nodes THEN [found |-> "none", path |-> p]
    ELSE IF nodes[p].kind # "split" THEN [found |-> "leaf", path |-> p]
    ELSE IF branch_for_instance(nodes[p], x) = 0 - 1 THEN [found |-> "split", path |-> p]
    ELSE filter_instance_to_leaf(nodes, Append(p, branch_for_instance(nodes[p], x)), x)

\* LearningNode.learn_one: the leaf's statistics take the sample in.
LeafLearn(nd, y) == [nd EXCEPT !.n = @ + SampleWeight, !.sum = @ + y * SampleWeight]

\* A variant of the deactivation that forgets to count the new inactive leaf.
DeactivateLeaf_Uncounted(T, p) ==
    LET new_leaf == _new_learning_node(Stats(T.nodes[p]), ParentOf(T.nodes, p), FALSE)
    IN  [T EXCEPT !.nodes = set_child(T.nodes, p, new_leaf),
                  !.n_active_leaves = @ - 1]

_deactivate_leaf(T, p) ==
    LET new_leaf == _new_learning_node(Stats(T.nodes[p]), ParentOf(T.nodes, p), FALSE)
        placed == IF p # << >> /\ p[Len(p)] = AltBranch
                  THEN [new_leaf EXCEPT !.depth = @ - 1] ELSE new_leaf
    IN  [T EXCEPT !.nodes = set_child(T.nodes, p, placed),
                  !.n_active_leaves = @ - 1,
                  !.n_inactive_leaves = @ + 1]

\* A variant of the activation that gives the new leaf the depth of a root.
ActivateLeaf_AsRoot(T, p) ==
    LET new_leaf == _new_learning_node(Stats(T.nodes[p]), << >>, TRUE)
    IN  [T EXCEPT !.nodes = set_child(T.nodes, p, new_leaf),
                  !.n_active_leaves = @ + 1,
                  !.n_inactive_leaves = @ - 1]

_activate_leaf(T, p) ==
    LET new_leaf == _new_learning_node(Stats(T.nodes[p]), ParentOf(T.nodes, p), TRUE)
        placed == IF p # << >> /\ p[Len(p)] = AltBranch
                  THEN [new_leaf EXCEPT !.depth = @ - 1] ELSE new_leaf
    IN  [T EXCEPT !.nodes = set_child(T.nodes, p, placed),
                  !.n_active_leaves = @ + 1,
                  !.n_inactive_leaves = @ - 1]

\* A split suggestion: its merit, the attribute its test depends on (0 for the
\* null split, whose split_test is None) and its number of branches.
Suggestion(merit, att, nb) == [merit |-> merit, att |-> att, nb |-> nb]

\* The suggestions one attribute observer can return: none, or one multi-way
\* test; a disabled attribute has no observer.
AttOptions(a, disabled) ==
    {<< >>} \cup (IF a \in disabled THEN {}
                  ELSE {<<Suggestion(m, a, nb)>> : m \in Merits, nb \in Vals})

RECURSIVE AttSuggestions(_, _)
AttSuggestions(a, disabled) ==
    IF a \notin Atts THEN {<< >>}
    ELSE {h \o t : h \in AttOptions(a, disabled), t \in AttSuggestions(a + 1, disabled)}

\* What node.get_best_split_suggestions can return: the null split unless
\* pre-pruning is off, then at most one suggestion per enabled attribute.
get_best_split_suggestions(nd) ==
    {h \o t : h \in {<< >>} \cup {<<Suggestion(m, 0, 1)>> : m \in Merits},
              t \in AttSuggestions(1, nd.disabled)}

\* list.sort(key=attrgetter('merit')): ascending and stable.
RECURSIVE InsertByMerit(_, _)
InsertByMerit(c, s) ==
    IF s = << >> THEN <<c>>
    ELSE IF s[Len(s)].merit <= c.merit THEN Append(s, c)
    ELSE Append(InsertByMerit(c, SubSeq(s, 1, Len(s) - 1)), s[Len(s)])

RECURSIVE SortByMerit(_)
SortByMerit(s) ==
    IF s = << >> THEN << >>
    ELSE InsertByMerit(s[Len(s)], SortByMerit(SubSeq(s, 1, Len(s) - 1)))

\* second.merit / best.merit < 1 - hoeffding_bound, for best.merit > 0.
RatioBelow(second, best, eps) == second * EpsUnit < (EpsUnit - eps) * best

\* A variant of the decision without the tie-break.
ShouldSplit_NoTieBreak(s, eps) ==
    IF Len(s) < 2 THEN Len(s) > 0
    ELSE s[Len(s)].merit > 0 /\ RatioBelow(s[Len(s) - 1].merit, s[Len(s)].merit, eps)

\* A variant of the decision that never looks at the best merit's sign.
ShouldSplit_NoMeritTest(s, eps) ==
    IF Len(s) < 2 THEN Len(s) > 0
    ELSE RatioBelow(s[Len(s) - 1].merit, s[Len(s)].merit, eps) \/ eps < TieThreshold

\* should_split, from the sorted suggestions and the Hoeffding bound.
ShouldSplit(s, eps) ==
    IF Len(s) < 2 THEN Len(s) > 0
    ELSE /\ s[Len(s)].merit > 0
         /\ (RatioBelow(s[Len(s) - 1].merit, s[Len(s)].merit, eps) \/ eps < TieThreshold)

\* The division second.merit / best.merit of the poor-attribute pass raises
\* ZeroDivisionError.
RaisesZeroDivision(s, rpa) == Len(s) >= 2 /\ rpa /\ s[Len(s)].merit = 0

\* poor_atts, for best.merit > 0:
\* merit / best.merit < second.merit / best.merit - 2 * hoeffding_bound.
PoorAtts(s, eps) ==
    {s[i].att : i \in {j \in 1 .. Len(s) :
        /\ s[j].att # 0
        /\ s[j].merit * EpsUnit < s[Len(s) - 1].merit * EpsUnit - 2 * eps * s[Len(s)].merit}}

\* A variant of the split that still counts the replaced leaf as active.
SplitLeaf_KeepsLeaf(T, p, c) ==
    LET node == T.nodes[p]
        new_split == _new_split_node([att |-> c.att, vals |-> [i \in 1 .. c.nb |-> i]],
                                     Stats(node), node.depth)
        new_child == _new_learning_node(NoStats, <<node>>, TRUE)
        kids == {Append(p, i) : i \in 0 .. c.nb - 1}
    IN  [T EXCEPT !.nodes = [q \in DOMAIN T.nodes \cup kids |->
                                IF q = p THEN new_split
                                ELSE IF q \in kids THEN new_child ELSE T.nodes[q]],
                  !.n_active_leaves = @ + c.nb,
                  !.n_decision_nodes = @ + 1]

\* The leaf at path p replaced by a split node on suggestion c, with one new
\* active leaf per branch.
SplitLeaf(T, p, c) ==
    LET node == T.nodes[p]
        new_split == _new_split_node([att |-> c.att, vals |-> [i \in 1 .. c.nb |-> i]],
                                     Stats(node), node.depth)
        new_child == _new_learning_node(NoStats, <<node>>, TRUE)
        kids == {Append(p, i) : i \in 0 .. c.nb - 1}
    IN  [T EXCEPT !.nodes = [q \in DOMAIN T.nodes \cup kids |->
                                IF q = p THEN new_split
                                ELSE IF q \in kids THEN new_child ELSE T.nodes[q]],
                  !.n_active_leaves = @ - 1 + c.nb,
                  !.n_decision_nodes = @ + 1]

ActiveLeaves(T) == {p \in DOMAIN T.nodes : T.nodes[p].kind = "active"}

\* Path order used to break ties between equally promising leaves.
RECURSIVE PathLess(_, _)
PathLess(p, q) ==
    IF p = << >> THEN q # << >>
    ELSE IF q = << >> THEN FALSE
    ELSE IF p[1] # q[1] THEN p[1] < q[1]
    ELSE PathLess(SubSeq(p, 2, Len(p)), SubSeq(q, 2, Len(q)))

\* The least promising active leaf: the one that has seen the least weight.
LeastPromising(T) ==
    CHOOSE p \in ActiveLeaves(T) : \A q \in ActiveLeaves(T) \ {p} :
        \/ T.nodes[p].n < T.nodes[q].n
        \/ T.nodes[p].n = T.nodes[q].n /\ PathLess(p, q)

\* The memory governor: over the byte budget, it deactivates the least
\* promising active leaf.
_enforce_size_limit(T, over_budget) ==
    IF over_budget /\ ActiveLeaves(T) # {} THEN _deactivate_leaf(T, LeastPromising(T)) ELSE T

\* A variant of the attempt that installs a split node whatever the best
\* suggestion is.
AttemptToSplit_NullSplits(T, p, suggestions, eps, over_budget, rpa) ==
    LET s == SortByMerit(suggestions)
        poor == IF Len(s) >= 2 /\ rpa THEN PoorAtts(s, eps) ELSE {}
        pruned == [T EXCEPT !.nodes[p].disabled = @ \cup poor]
        decided == SplitLeaf(pruned, p, s[Len(s)])
    IN  IF RaisesZeroDivision(s, rpa) THEN [T |-> T, raised |-> TRUE]
        ELSE IF ShouldSplit(s, eps)
             THEN [T |-> _enforce_size_limit(decided, over_budget), raised |-> FALSE]
             ELSE [T |-> pruned, raised |-> FALSE]

\* A variant of the attempt that disables poor attributes only when the
\* split is approved.
AttemptToSplit_PruneOnApproval(T, p, suggestions, eps, over_budget, rpa) ==
    LET s == SortByMerit(suggestions)
        poor == IF Len(s) >= 2 /\ rpa THEN PoorAtts(s, eps) ELSE {}
        pruned == [T EXCEPT !.nodes[p].disabled = @ \cup poor]
        decided == IF s[Len(s)].att = 0 THEN _deactivate_leaf(pruned, p)
                   ELSE SplitLeaf(pruned, p, s[Len(s)])
    IN  IF RaisesZeroDivision(s, rpa) THEN [T |-> T, raised |-> TRUE]
        ELSE IF ShouldSplit(s, eps)
             THEN [T |-> _enforce_size_limit(decided, over_budget), raised |-> FALSE]
             ELSE [T |-> T, raised |-> FALSE]

\* _attempt_to_split on the active leaf at path p.  The result is the tree
\* and whether the call raised.
_attempt_to_split(T, p, suggestions, eps, over_budget, rpa) ==
    LET s == SortByMerit(suggestions)
        poor == IF Len(s) >= 2 /\ rpa THEN PoorAtts(s, eps) ELSE {}
        pruned == [T EXCEPT !.nodes[p].disabled = @ \cup poor]
        decided == IF s[Len(s)].att = 0 THEN _deactivate_leaf(pruned, p)
                   ELSE SplitLeaf(pruned, p, s[Len(s)])
    IN  IF RaisesZeroDivision(s, rpa) THEN [T |-> T, raised |-> TRUE]
        ELSE IF ShouldSplit(s, eps)
             THEN [T |-> _enforce_size_limit(decided, over_budget), raised |-> FALSE]
             ELSE [T |-> pruned, raised |-> FALSE]

\* A variant of the branch addition that reuses the last branch index.
AddBranch_Overwrites(T, p, x, y) ==
    LET current == T.nodes[p]
        branch_id == Len(current.vals) - 1
    IN  [T EXCEPT !.nodes = set_child(
                      set_child(T.nodes, p,
                                [current EXCEPT !.vals = Append(@, x[current.att])]),
                      Append(p, branch_id),
                      LeafLearn(_new_learning_node(NoStats, <<current>>, TRUE), y)),
                  !.n_active_leaves = @ + 1]

\* The split node at path p has no branch for x's value: the split test adds
\* one, a new active leaf is attached at the returned index and learns.
AddBranch(T, p, x, y) ==
    LET current == T.nodes[p]
        branch_id == Len(current.vals)
    IN  [T EXCEPT !.nodes = set_child(
                      set_child(T.nodes, p,
                                [current EXCEPT !.vals = Append(@, x[current.att])]),
                      Append(p, branch_id),
                      LeafLearn(_new_learning_node(NoStats, <<current>>, TRUE), y)),
                  !.n_active_leaves = @ + 1]

\* A variant of the growth step that does not look at the kind of the leaf.
LeafStep_IgnoresKind(T, p) ==
    LET leaf_node == T.nodes[p]
    IN  IF leaf_node.kind # "inactive" /\ leaf_node.depth >= MaxDepth
        THEN [T |-> _deactivate_leaf(T, p), path |-> p, attempt |-> FALSE]
        ELSE [T |-> T, path |-> p,
              attempt |-> leaf_node.n - leaf_node.last_split_attempt_at >= GracePeriod]

\* A variant of the growth step without the max_depth test.
LeafStep_NoDepthTest(T, p) ==
    LET leaf_node == T.nodes[p]
    IN  IF ~(T.growth_allowed /\ leaf_node.kind = "active")
        THEN [T |-> T, path |-> p, attempt |-> FALSE]
        ELSE [T |-> T, path |-> p,
              attempt |-> leaf_node.n - leaf_node.last_split_attempt_at >= GracePeriod]

\* The growth step on the leaf at path p, which has just learned: nothing
\* unless growth is allowed and the leaf is active; then the leaf is
\* deactivated at max_depth, and otherwise a split is attempted once the
\* weight seen since the last attempt reaches grace_period.
LeafStep(T, p) ==
    LET leaf_node == T.nodes[p]
    IN  IF ~(T.growth_allowed /\ leaf_node.kind = "active")
        THEN [T |-> T, path |-> p, attempt |-> FALSE]
        ELSE IF leaf_node.depth >= MaxDepth
        THEN [T |-> _deactivate_leaf(T, p), path |-> p, attempt |-> FALSE]
        ELSE [T |-> T, path |-> p,
              attempt |-> leaf_node.n - leaf_node.last_split_attempt_at >= GracePeriod]

\* learn_one up to the split attempt: the root is created if missing, the
\* instance is sorted down the tree, a missing leaf is created, the leaf
\* learns, and a leaf at max_depth is deactivated.  attempt says whether
\* _attempt_to_split is called next, on the leaf at path.
LearnHead(T, x, y) ==
    LET rooted == IF << >> \in DOMAIN T.nodes THEN T
                  ELSE [T EXCEPT !.nodes = set_child(T.nodes, << >>,
                                               _new_learning_node(NoStats, << >>, TRUE)),
                                 !.n_active_leaves = 1]
        found_node == filter_instance_to_leaf(rooted.nodes, << >>, x)
        p == found_node.path
        filled == IF found_node.found = "none"
                  THEN [rooted EXCEPT !.nodes = set_child(rooted.nodes, p,
                                                    _new_learning_node(NoStats, << >>, TRUE)),
                                      !.n_active_leaves = @ + 1]
                  ELSE rooted
    IN  IF found_node.found = "split"
        THEN [T |-> AddBranch(rooted, p, x, y),
              path |-> Append(p, Len(rooted.nodes[p].vals)), attempt |-> FALSE]
        ELSE LeafStep([filled EXCEPT !.nodes[p] = LeafLearn(@, y)], p)

\* The rest of learn_one after LearnHead asked for a split attempt: the
\* attempt, then leaf_node.last_split_attempt_at = weight_seen on the leaf
\* object, which is still in the tree only if the attempt left it in place.
LearnTail(h, suggestions, eps, over_budget, rpa) ==
    LET r == _attempt_to_split(h.T, h.path, suggestions, eps, over_budget, rpa)
        weight_seen == h.T.nodes[h.path].n
    IN  IF r.raised \/ r.T.nodes[h.path].kind # "active" THEN r
        ELSE [r EXCEPT !.T.nodes[h.path].last_split_attempt_at = weight_seen]

(***************************************************************************)
(* Prediction.  A dictionary is a function from the keys it has; a class   *)
(* distribution has the classes seen as keys.                              *)
(***************************************************************************)
\* The class distribution a node has observed, reading the targets as class
\* labels: sum is the weight of class 1, the rest of n that of class 0.
Dist(nd) ==
    [c \in {k \in Ys : (IF k = 1 THEN nd.sum ELSE nd.n - nd.sum) > 0} |->
        IF c = 1 THEN nd.sum ELSE nd.n - nd.sum]

\* The prediction of a regression leaf: the mean of the targets it has seen.
LeafPredict(nd) == IF nd.n = 0 THEN 0 ELSE (nd.sum * Scale) \div nd.n

add_dict_values(a, b) ==
    [c \in DOMAIN a \cup DOMAIN b |->
        (IF c \in DOMAIN a THEN a[c] ELSE 0) + (IF c \in DOMAIN b THEN b[c] ELSE 0)]

RECURSIVE DictTotal(_, _)
DictTotal(d, keys) ==
    IF keys = {} THEN 0
    ELSE LET k == CHOOSE c \in keys : TRUE IN d[k] + DictTotal(d, keys \ {k})

DictMax(d) == CHOOSE m \in {d[c] : c \in DOMAIN d} : \A c \in DOMAIN d : d[c] <= m

\* softmax: exp(v - maximum) over the sum of these.  The result is written
\* as the exponents v - maximum, which determine it one to one; an empty
\* dictionary is returned as it is.
softmax(y_pred) ==
    IF DOMAIN y_pred = {} THEN y_pred
    ELSE [c \in DOMAIN y_pred |-> y_pred[c] - DictMax(y_pred)]

\* normalize_values_in_dict: every value over the total, in 1/Scale; a
\* dictionary whose total is 0 is returned as it is.
normalize_values_in_dict(d) ==
    IF DictTotal(d, DOMAIN d) = 0 THEN d
    ELSE [c \in DOMAIN d |-> (d[c] * Scale) \div DictTotal(d, DOMAIN d)]

\* FoundNode(node, parent, parent_branch); node and parent are << >> for
\* None, <<nd>> for a node.
FoundNode(node, parent, parent_branch) ==
    [node |-> node, parent |-> parent, parent_branch |-> parent_branch]

\* The found node of the instance's path in a tree that has a root.
FoundOf(T, x) ==
    LET f == filter_instance_to_leaf(T.nodes, << >>, x)
        p == f.path
    IN  IF p = << >> THEN FoundNode(<<T.nodes[p]>>, << >>, 0 - 1)
        ELSE FoundNode(IF f.found = "none" THEN << >> ELSE <<T.nodes[p]>>,
                       <<T.nodes[SubSeq(p, 1, Len(p) - 1)]>>, p[Len(p)])

\* _filter_instance_to_leaves on a tree without alternate subtrees: the one
\* found node of the main path.
_filter_instance_to_leaves(T, x) == <<FoundOf(T, x)>>

\* A variant of the regressor's prediction that answers 0 wherever the
\* instance is not sorted to a leaf.
predict_one_LeafOrZero(T, x) ==
    IF << >> \in DOMAIN T.nodes
    THEN LET fn == FoundOf(T, x)
         IN  IF fn.node # << >> /\ fn.node[1].kind # "split"
             THEN [raised |-> FALSE, value |-> LeafPredict(fn.node[1])]
             ELSE [raised |-> FALSE, value |-> 0]
    ELSE [raised |-> FALSE, value |-> 0]

\* A variant of the regressor's prediction that sorts the instance without
\* looking whether the tree has a root.
predict_one_NoRootTest(T, x) ==
    IF << >> \in DOMAIN T.nodes
    THEN LET fn == FoundOf(T, x)
         IN  IF fn.node = << >> THEN [raised |-> TRUE, value |-> 0]
             ELSE IF fn.node[1].kind # "split"
             THEN [raised |-> FALSE, value |-> LeafPredict(fn.node[1])]
             ELSE IF fn.node[1].n = 0 THEN [raised |-> TRUE, value |-> 0]
             ELSE [raised |-> FALSE, value |-> (fn.node[1].sum * Scale) \div fn.node[1].n]
    ELSE [raised |-> TRUE, value |-> 0]

\* HoeffdingTreeRegressor.predict_one: the prediction of the leaf the
\* instance is sorted to; stats[1] / stats[0] of the split node when it is
\* sorted to a split node; 0 without a root.  node.is_leaf() raises when the
\* found node is None, and the division when stats[0] is 0.
predict_one(T, x) ==
    IF << >> \in DOMAIN T.nodes
    THEN LET fn == FoundOf(T, x)
         IN  IF fn.node = << >> THEN [raised |-> TRUE, value |-> 0]
             ELSE IF fn.node[1].kind # "split"
             THEN [raised |-> FALSE, value |-> LeafPredict(fn.node[1])]
             ELSE IF fn.node[1].n = 0 THEN [raised |-> TRUE, value |-> 0]
             ELSE [raised |-> FALSE, value |-> (fn.node[1].sum * Scale) \div fn.node[1].n]
    ELSE [raised |-> FALSE, value |-> 0]

\* A variant of the test that skips no found node.
Skipped_Never(fn) == FALSE

\* parent_branch == -999: the found node is the root of an alternate tree.
Skipped(fn) == fn.parent_branch = AltBranch

\* The loop of predict_proba_one: the distributions of the found nodes, of
\* the parent where the node is None, are added to proba, skipping every
\* found node whose parent_branch is -999.
RECURSIVE CombineFound(_, _)
CombineFound(found_nodes, proba) ==
    IF found_nodes = << >> THEN proba
    ELSE LET fn == Head(found_nodes)
             leaf_node == IF fn.node = << >> THEN fn.parent[1] ELSE fn.node[1]
         IN  CombineFound(Tail(found_nodes),
                          IF ~Skipped(fn)
                          THEN add_dict_values(proba, Dist(leaf_node))
                          ELSE proba)

\* predict_proba_one of the adaptive classifier (creme): combined is proba
\* before the return, returned is softmax(proba).
predict_proba_one(has_root, found_nodes) ==
    LET proba == IF has_root THEN CombineFound(found_nodes, << >>) ELSE << >>
    IN  [combined |-> proba, returned |-> softmax(proba)]

\* predict_proba_one of the adaptive classifier (river): proba starts at 0
\* for every class seen and is normalised only when the tree has a root.
river_predict_proba_one(classes, has_root, found_nodes) ==
    LET zero == [c \in classes |-> 0]
        proba == IF has_root THEN CombineFound(found_nodes, zero) ELSE zero
    IN  [combined |-> proba,
         returned |-> IF has_root THEN normalize_values_in_dict(proba) ELSE proba]

\* self.classes: the class labels the tree has been shown.
ClassesSeen(T) == {c \in Ys : \E q \in DOMAIN T.nodes : c \in DOMAIN Dist(T.nodes[q])}

\* No prediction asked since the last update of the tree.
NoPrediction == [op |-> "none"]

(***************************************************************************)
(* Chains of models (multioutput/chain.py).  A dict is a function from its *)
(* keys; a feature key is a tuple: <<0>> the example's own feature, <<o>>   *)
(* the key o, <<o, v>> the formatted key f'{o}_{v}'.                        *)
(***************************************************************************)
Outputs == 1 .. ChainLen

BinaryLabels == {0, 1}          \* False, True

MultiLabels == {1, 2}

FloatValue(v) == [kind |-> "float", val |-> v]

DictValue(d) == [kind |-> "dict", val |-> d]

\* d[k] = v on a dict.
Put(d, k, v) == [q \in DOMAIN d \cup {k} |-> IF q = k THEN v ELSE d[q]]

\* The name x inside a method: the dict it refers to (local), the dict the
\* caller passed (caller), and whether they are the same object.
Bind(x) == [caller |-> x, local |-> x, aliased |-> TRUE]

\* x = copy.copy(x): x now refers to a new dict with the same items.
copy_copy(xs) == [xs EXCEPT !.aliased = FALSE]

\* x[k] = v: written to the dict x refers to.
SetItem(xs, k, v) ==
    [xs EXCEPT !.local = Put(@, k, v),
               !.caller = IF xs.aliased THEN Put(@, k, v) ELSE @]

\* A model of the chain before it has learned: a copy of self.model.
NewModel == [n |-> 0, cnt |-> [l \in BinaryLabels \cup MultiLabels |-> 0], sum |-> 0]

\* clf.predict_proba_one: a binary classifier answers for False and True, a
\* multiclass one for the labels it has seen; the answer moves with every
\* example learned.
clf_predict_proba_one(clf, multiclass) ==
    IF multiclass
    THEN [l \in {k \in MultiLabels : clf.cnt[k] > 0} |-> (clf.cnt[l] * Scale) \div clf.n]
    ELSE [l \in BinaryLabels |-> ((clf.cnt[l] + 1) * Scale) \div (clf.n + 2)]

clf_learn_one(clf, label) == [clf EXCEPT !.n = @ + 1, !.cnt[label] = @ + 1]

\* reg.predict_one: the mean of the targets learned, 0 before any.
reg_predict_one(reg) == IF reg.n = 0 THEN 0 ELSE (reg.sum * Scale) \div reg.n

reg_learn_one(reg, target) == [reg EXCEPT !.n = @ + 1, !.sum = @ + target]

\* BaseChain.__init__: the models exist from the start when order is given.
_init_models(order) == [o \in {order[i] : i \in 1 .. Len(order)} |-> NewModel]

BaseChain_init(kind, multiclass, order) ==
    [kind |-> kind, multiclass |-> multiclass, order |-> order,
     models |-> _init_models(order)]

\* for label, proba in y_pred.items(): x[f'{o}_{label}'] = proba
RECURSIVE SetLabelItems(_, _, _, _)
SetLabelItems(xs, o, y_pred, labels) ==
    IF labels = {} THEN xs
    ELSE LET label == CHOOSE l \in labels : TRUE
         IN  SetLabelItems(SetItem(xs, <<o, label>>, FloatValue(y_pred[label])),
                           o, y_pred, labels \ {label})

\* Mutant: the model learns before it is asked for the prediction.
ClassifierStep_LearnFirst(acc, o, y, multiclass) ==
    LET clf == clf_learn_one(acc.models[o], y[o])
        y_pred == clf_predict_proba_one(clf, multiclass)
        xs == IF multiclass THEN SetLabelItems(acc.xs, o, y_pred, DOMAIN y_pred)
              ELSE SetItem(acc.xs, <<o>>, FloatValue(y_pred[1]))
    IN  [models |-> [acc.models EXCEPT ![o] = clf],
         xs |-> xs,
         steps |-> Append(acc.steps, [o |-> o, x |-> acc.xs.local, y_pred |-> y_pred])]

\* One turn of the loop of ClassifierChain.learn_one, for output o: predict,
\* learn, store the prediction as features for the next outputs.
ClassifierStep(acc, o, y, multiclass) ==
    LET y_pred == clf_predict_proba_one(acc.models[o], multiclass)
        clf == clf_learn_one(acc.models[o], y[o])
        xs == IF multiclass THEN SetLabelItems(acc.xs, o, y_pred, DOMAIN y_pred)
              ELSE SetItem(acc.xs, <<o>>, FloatValue(y_pred[1]))
    IN  [models |-> [acc.models EXCEPT ![o] = clf],
         xs |-> xs,
         steps |-> Append(acc.steps, [o |-> o, x |-> acc.xs.local, y_pred |-> y_pred])]

\* Mutant: the regressor learns before it is asked for the prediction.
RegressorStep_LearnFirst(acc, o, y) ==
    LET reg == reg_learn_one(acc.models[o], y[o])
        y_pred == reg_predict_one(reg)
    IN  [models |-> [acc.models EXCEPT ![o] = reg],
         xs |-> SetItem(acc.xs, <<o>>, FloatValue(y_pred)),
         steps |-> Append(acc.steps, [o |-> o, x |-> acc.xs.local, y_pred |-> y_pred])]

\* One turn of the loop of RegressorChain.learn_one.
RegressorStep(acc, o, y) ==
    LET y_pred == reg_predict_one(acc.models[o])
        reg == reg_learn_one(acc.models[o], y[o])
    IN  [models |-> [acc.models EXCEPT ![o] = reg],
         xs |-> SetItem(acc.xs, <<o>>, FloatValue(y_pred)),
         steps |-> Append(acc.steps, [o |-> o, x |-> acc.xs.local, y_pred |-> y_pred])]

RECURSIVE LearnLoop(_, _, _, _, _)
LearnLoop(acc, order, y, kind, multiclass) ==
    IF order = << >> THEN acc
    ELSE LearnLoop(IF kind = "classifier"
                   THEN ClassifierStep(acc, Head(order), y, multiclass)
                   ELSE RegressorStep(acc, Head(order), y),
                   Tail(order), y, kind, multiclass)

\* list(y.keys()): the targets come keyed by the outputs in their order.
KeysOf(y) == [i \in 1 .. ChainLen |-> i]

\* Mutant: learn_one without the copy of x.
ChainLearnOne_NoCopy(c, x, y) ==
    LET order == IF c.order = << >> THEN KeysOf(y) ELSE c.order
        models == IF c.order = << >> THEN _init_models(order) ELSE c.models
        done == LearnLoop([models |-> models, xs |-> Bind(x), steps |-> << >>],
                          order, y, c.kind, c.multiclass)
    IN  [chain |-> [c EXCEPT !.order = order, !.models = done.models],
         x |-> done.xs.caller, y |-> y, steps |-> done.steps, returned |-> "self"]

\* ClassifierChain.learn_one and RegressorChain.learn_one: the chain after
\* the call, the caller's x and y after it, what each model was given, and
\* the value returned.
Chain_learn_one(c, x, y) ==
    LET order == IF c.order = << >> THEN KeysOf(y) ELSE c.order
        models == IF c.order = << >> THEN _init_models(order) ELSE c.models
        done == LearnLoop([models |-> models, xs |-> copy_copy(Bind(x)), steps |-> << >>],
                          order, y, c.kind, c.multiclass)
    IN  [chain |-> [c EXCEPT !.order = order, !.models = done.models],
         x |-> done.xs.caller, y |-> y, steps |-> done.steps, returned |-> "self"]

\* for label, proba in y_pred.items(): x[f'{o}_{label}'] = proba, where
\* y_pred is the dict of the outputs predicted so far.
RECURSIVE SetOutputItems(_, _, _, _)
SetOutputItems(xs, o, y_pred, keys) ==
    IF keys = {} THEN xs
    ELSE LET label == CHOOSE l \in keys : TRUE
         IN  SetOutputItems(SetItem(xs, <<o, label>>, DictValue(y_pred[label])),
                            o, y_pred, keys \ {label})

\* One turn of the loop of ClassifierChain.predict_proba_one.
ClassifierPredictStep(acc, o, models, multiclass) ==
    LET y_pred == Put(acc.y_pred, o, clf_predict_proba_one(models[o], multiclass))
        xs == IF multiclass THEN SetOutputItems(acc.xs, o, y_pred, DOMAIN y_pred)
              ELSE SetItem(acc.xs, <<o>>, FloatValue(y_pred[o][1]))
    IN  [y_pred |-> y_pred, xs |-> xs,
         steps |-> Append(acc.steps, [o |-> o, x |-> acc.xs.local, y_pred |-> y_pred[o]])]

\* One turn of the loop of RegressorChain.predict_one.
RegressorPredictStep(acc, o, models) ==
    LET y_pred == Put(acc.y_pred, o, reg_predict_one(models[o]))
    IN  [y_pred |-> y_pred, xs |-> SetItem(acc.xs, <<o>>, FloatValue(y_pred[o])),
         steps |-> Append(acc.steps, [o |-> o, x |-> acc.xs.local, y_pred |-> y_pred[o]])]

RECURSIVE PredictLoop(_, _, _, _, _)
PredictLoop(acc, order, models, kind, multiclass) ==
    IF order = << >> THEN acc
    ELSE PredictLoop(IF kind = "classifier"
                     THEN ClassifierPredictStep(acc, Head(order), models, multiclass)
                     ELSE RegressorPredictStep(acc, Head(order), models),
                     Tail(order), models, kind, multiclass)

\* ClassifierChain.predict_proba_one and RegressorChain.predict_one: the
\* caller's x after the call, what each model was given, and the
\* predictions returned.  Without an order there is no model to ask.
Chain_predict_one(c, x) ==
    LET done == PredictLoop([y_pred |-> << >>, xs |-> copy_copy(Bind(x)), steps |-> << >>],
                            c.order, c.models, c.kind, c.multiclass)
    IN  [x |-> done.xs.caller, steps |-> done.steps, returned |-> done.y_pred]

(***************************************************************************)
(* The alternate-subtree manager of a split node (spec 4.4).  A subtree is *)
(* known by the examples it has observed and the errors it has made.       *)
(***************************************************************************)
NoWindow == [seen |-> 0, err |-> 0]

NoManager ==
    [state |-> "NO_ALTERNATE", orig |-> NoWindow, alt |-> NoWindow,
     created |-> 0, pruned |-> 0, promoted |-> 0,
     last |-> [op |-> "init", alt_seen |-> 0]]

\* A routed example: a subtree observes it, with or without an error.
Observe(w, wrong) == [seen |-> w.seen + 1, err |-> w.err + (IF wrong THEN 1 ELSE 0)]

\* The error rate of a is strictly below that of b.
StrictlyBetter(a, b) == a.err * b.seen < b.err * a.seen

\* A variant of the comparison that does not wait for the window.
Evaluate_NoWindow(m) ==
    IF m.state # "GROWING_ALTERNATE"
    THEN [m EXCEPT !.last = [op |-> "route", alt_seen |-> 0]]
    ELSE IF StrictlyBetter(m.alt, m.orig)
    THEN [m EXCEPT !.state = "NO_ALTERNATE", !.orig = m.alt, !.alt = NoWindow,
                   !.promoted = @ + 1,
                   !.last = [op |-> "promote", alt_seen |-> m.alt.seen]]
    ELSE IF StrictlyBetter(m.orig, m.alt)
    THEN [m EXCEPT !.state = "NO_ALTERNATE", !.alt = NoWindow, !.pruned = @ + 1,
                   !.last = [op |-> "prune", alt_seen |-> m.alt.seen]]
    ELSE [m EXCEPT !.last = [op |-> "keep", alt_seen |-> m.alt.seen]]

\* While GROWING_ALTERNATE, once both subtrees have observed the window:
\* promotion if the alternate is strictly better, pruning if the original
\* is, and otherwise the alternate keeps growing.
Evaluate(m) ==
    IF m.state # "GROWING_ALTERNATE"
    THEN [m EXCEPT !.last = [op |-> "route", alt_seen |-> 0]]
    ELSE IF m.alt.seen < DriftWindowThreshold \/ m.orig.seen < DriftWindowThreshold
    THEN [m EXCEPT !.last = [op |-> "grow", alt_seen |-> m.alt.seen]]
    ELSE IF StrictlyBetter(m.alt, m.orig)
    THEN [m EXCEPT !.state = "NO_ALTERNATE", !.orig = m.alt, !.alt = NoWindow,
                   !.promoted = @ + 1,
                   !.last = [op |-> "promote", alt_seen |-> m.alt.seen]]
    ELSE IF StrictlyBetter(m.orig, m.alt)
    THEN [m EXCEPT !.state = "NO_ALTERNATE", !.alt = NoWindow, !.pruned = @ + 1,
                   !.last = [op |-> "prune", alt_seen |-> m.alt.seen]]
    ELSE [m EXCEPT !.last = [op |-> "keep", alt_seen |-> m.alt.seen]]

\* One example routed through the split node: the original subtree observes
\* it, the alternate too when there is one, and the two are compared.
RouteExample(m, wrong_orig, wrong_alt) ==
    Evaluate([m EXCEPT !.orig = Observe(@, wrong_orig),
                       !.alt = IF m.state = "GROWING_ALTERNATE"
                               THEN Observe(@, wrong_alt) ELSE @])

(***************************************************************************)
(* NumericAttributeClassObserverGaussian.  Weights are whole numbers, a    *)
(* cumulative probability is in 1/Scale, and a weight on one side of a     *)
(* split is in 1/Scale too.                                                *)
(***************************************************************************)
\* __init__: no class observed.
NewObserver == [min_per_class |-> << >>, max_per_class |-> << >>, n_samples |-> << >>]

\* att_val is None
None == 0 - 1000

\* estimator.cdf(split_value): a probability.
CdfValues == {0, Scale \div 4, Scale \div 2, Scale}

\* update(att_val, class_val, sample_weight)
observer_update(o, att_val, class_val, sample_weight) ==
    IF att_val = None THEN o
    ELSE IF class_val \in DOMAIN o.n_samples
    THEN [o EXCEPT !.min_per_class[class_val] = IF att_val < @ THEN att_val ELSE @,
                   !.max_per_class[class_val] = IF att_val > @ THEN att_val ELSE @,
                   !.n_samples[class_val] = @ + sample_weight]
    ELSE [min_per_class |-> Put(o.min_per_class, class_val, att_val),
          max_per_class |-> Put(o.max_per_class, class_val, att_val),
          n_samples |-> Put(o.n_samples, class_val, sample_weight)]

\* A variant that leaves the whole weight of a class on the right when the
\* split value is within its values.
ClassDists_RightKeepsAll(o, split_value, cdf) ==
    LET seen == DOMAIN o.n_samples
        right == {k \in seen : split_value < o.min_per_class[k]}
        left == {k \in seen \ right : split_value >= o.max_per_class[k]}
    IN  [lhs_dist |-> [k \in seen \ right |->
                          IF k \in left THEN o.n_samples[k] * Scale
                          ELSE cdf[k] * o.n_samples[k]],
         rhs_dist |-> [k \in seen \ left |-> o.n_samples[k] * Scale]]

\* get_class_dists_from_binary_split(split_value); cdf[k] is what the
\* estimator of class k answers for the split value.
get_class_dists_from_binary_split(o, split_value, cdf) ==
    LET seen == DOMAIN o.n_samples
        right == {k \in seen : split_value < o.min_per_class[k]}
        left == {k \in seen \ right : split_value >= o.max_per_class[k]}
    IN  [lhs_dist |-> [k \in seen \ right |->
                          IF k \in left THEN o.n_samples[k] * Scale
                          ELSE cdf[k] * o.n_samples[k]],
         rhs_dist |-> [k \in seen \ left |->
                          IF k \in right THEN o.n_samples[k] * Scale
                          ELSE o.n_samples[k] * Scale - cdf[k] * o.n_samples[k]]]

(***************************************************************************)
(* Two trees with the same configuration.  The only input of learn_one     *)
(* besides the tree and the example is the random source of the bootstrap  *)
(* sampling, which the tree hands to its learning nodes.                   *)
(***************************************************************************)
\* The seeds a tree can be given; None stands for no seed.
Seeds == {0, 1}

\* The values a Poisson(1) draw takes here.
PoissonDraws == {0, 1, 2}

\* The draw number pos of a random source seeded with seed.
PoissonStream(seed, pos) == ((seed + 1) * (pos + 1) + pos * pos) % 3

\* A variant of the draw that never looks at the seed.
Draw_Unseeded(random_state, pos, entropy) == entropy

\* random_state.poisson(1.0): the next value of the seeded stream, or, without
\* a seed, whatever the process-wide source gives.
Draw(random_state, pos, entropy) ==
    IF random_state = None THEN entropy ELSE PoissonStream(random_state, pos)

\* __init__(bootstrap_sampling, random_state), twice: two empty trees, the
\* random source of each at its start.
Twins(bootstrap_sampling, random_state) ==
    [bootstrap_sampling |-> bootstrap_sampling, random_state |-> random_state,
     a |-> [T |-> EmptyTree, pos |-> 0], b |-> [T |-> EmptyTree, pos |-> 0], n |-> 0]

\* The weights the example can get in this call: 1 without bootstrap
\* sampling, and otherwise what the random source of the tree draws.
BootstrapWeights(w, t) ==
    IF w.bootstrap_sampling
    THEN {Draw(w.random_state, t.pos, entropy) : entropy \in PoissonDraws}
    ELSE {1}

\* The leaf the example is sorted to takes the weight above 1 in.
Weighted(T, x, y, k) ==
    IF k < 2 \/ << >> \notin DOMAIN T.nodes THEN T
    ELSE LET found_node == filter_instance_to_leaf(T.nodes, << >>, x)
         IN  IF found_node.found # "leaf" THEN T
             ELSE [T EXCEPT !.nodes[found_node.path].n = @ + (k - 1) * SampleWeight,
                            !.nodes[found_node.path].sum = @ + y * (k - 1) * SampleWeight]

\* learn_one with weight k up to the split attempt; weight 0 leaves the tree.
TwinHead(T, x, y, k) ==
    IF k = 0 THEN [T |-> T, path |-> << >>, attempt |-> FALSE]
    ELSE LearnHead(Weighted(T, x, y, k), x, y)

\* What the collaborators can answer during the split attempt after head h:
\* the observers' suggestions, the Hoeffding bound, the governor's verdict.
Answers(h) ==
    IF h.attempt
    THEN [suggestions : get_best_split_suggestions(h.T.nodes[h.path]),
          eps : Epsilons, over_budget : BOOLEAN]
    ELSE {[suggestions |-> << >>, eps |-> 0, over_budget |-> FALSE]}

\* The tree after the call.
TwinTail(h, ans, rpa) ==
    IF h.attempt
    THEN LearnTail(h, ans.suggestions, ans.eps, ans.over_budget, rpa).T
    ELSE h.T

\* Nothing but the detector, the tree or the chain has been used.
ExtraFresh ==
    /\ am = NoManager
    /\ ob = NewObserver
    /\ oq = [op |-> "init"]
    /\ tw = Twins(FALSE, None)

\* The chain before any call.
ChainFresh ==
    /\ ch = BaseChain_init("classifier", FALSE, << >>)
    /\ cl = [op |-> "init"]

\* The tree before any call.
NoTreeCall ==
    [op |-> "init", attempted |-> FALSE, raised |-> FALSE, path |-> << >>,
     was |-> "none", suggestions |-> << >>, eps |-> 0, at_attempt |-> EmptyTree,
     returned |-> "nothing"]

TreeFresh ==
    /\ ht = EmptyTree
    /\ tl = NoTreeCall
    /\ nlearn = 0
    /\ pr = NoPrediction

(***************************************************************************)
(* The detector driven by a stream of bits.                                *)
(***************************************************************************)
NoBits == [n |-> 0, first |-> 0, n1 |-> 0, sw |-> 0]

NoCall == [op |-> "init", value |-> 0, pre |-> HDDM_W_init, run |-> NoBits]

\* The summary of a bit sequence with one more bit appended.
FedAppend(f, bit, prev) ==
    IF f.n = 0 THEN [n |-> 1, first |-> bit, n1 |-> 1, sw |-> 0]
    ELSE [f EXCEPT !.n = f.n + 1,
                   !.n1 = IF f.sw = 0 /\ bit = prev THEN f.n1 + 1 ELSE f.n1,
                   !.sw = IF bit = prev THEN f.sw ELSE f.sw + 1]

DetInit ==
    /\ hd = HDDM_W_init
    /\ two_sided \in BOOLEAN
    /\ last = NoCall
    /\ fed = NoBits
    /\ reset_kind = "fresh"
    /\ nresets = 0
    /\ nfed = 0
    /\ first_drift = 0

\* reset() was called inside the update call that produced post.
ResetInside(post) == post.width = 0

\* One update(value) call, with the bookkeeping of the run.
DoUpdate(value) ==
    LET post == update(hd, value, two_sided)
    IN  /\ hd' = post
        /\ last' = [op |-> "update", value |-> value, pre |-> hd,
                    run |-> FedAppend(fed, value, last.value)]
        /\ fed' = IF ResetInside(post) THEN NoBits ELSE FedAppend(fed, value, last.value)
        /\ reset_kind' = IF ResetInside(post) THEN "drift" ELSE reset_kind

\* update(value) on a stream whose bit changes at most MaxSwitches times
\* between two resets.
Update(value) ==
    /\ fed.n < (IF fed.sw = 0 THEN MaxRun ELSE MaxSamples)
    /\ (IF fed.n = 0 \/ value = last.value THEN TRUE
                                          ELSE fed.n < MaxSamples /\ fed.sw < MaxSwitches)
    /\ DoUpdate(value)
    /\ UNCHANGED <<two_sided, nresets, nfed, first_drift, treeVars, chainVars, extraVars>>

\* An explicit reset() call.
Reset ==
    /\ nresets < MaxResets
    /\ last.op = "update"
    /\ hd' = reset(hd)
    /\ last' = [last EXCEPT !.op = "reset", !.pre = hd, !.run = NoBits]
    /\ fed' = NoBits
    /\ reset_kind' = "explicit"
    /\ nresets' = nresets + 1
    /\ UNCHANGED <<two_sided, nfed, first_drift, treeVars, chainVars, extraVars>>

Init == DetInit /\ TreeFresh /\ ChainFresh /\ ExtraFresh /\ remove_poor_atts = FALSE

Next == (\E value \in Bits : Update(value)) \/ Reset

Spec == Init /\ [][Next]_vars

(***************************************************************************)
(* Scenario A: a fresh detector fed NZeros zeros and then NOnes ones.      *)
(***************************************************************************)
ScenarioBit == IF nfed < NZeros THEN 0 ELSE 1

UpdateA ==
    /\ nfed < NZeros + NOnes
    /\ DoUpdate(ScenarioBit)
    /\ nfed' = nfed + 1
    /\ first_drift' = IF first_drift = 0 /\ hd'.in_concept_change
                      THEN nfed + 1 ELSE first_drift
    /\ UNCHANGED <<two_sided, nresets, treeVars, chainVars, extraVars>>

SpecA == Init /\ [][UpdateA]_vars

(***************************************************************************)
(* The tree driven by a stream of instances.                               *)
(***************************************************************************)
\* What learn_one does up to the split attempt, for each instance and target.
LearnHeads(T) == {LearnHead(T, x, y) : x \in Instances, y \in Ys}

\* The outcomes learn_one can have after the head h.  The suggestions, the
\* Hoeffding bound and the memory governor's verdict are the collaborators'
\* answers during the call; they are asked for only when the call attempts a
\* split.  An outcome is the call's result, the leaf it reached, and, when
\* recorded, the tree and the inputs its split attempt started from.
Outcome(h, r, suggestions, eps, recorded) ==
    [T |-> r.T, raised |-> r.raised, attempted |-> h.attempt, path |-> h.path,
     suggestions |-> IF recorded THEN SortByMerit(suggestions) ELSE << >>,
     eps |-> IF recorded THEN eps ELSE 0,
     at_attempt |-> IF recorded /\ h.attempt THEN h.T ELSE EmptyTree]

LearnOutcomes(h, rpa, recorded) ==
    IF h.attempt
    THEN {Outcome(h, LearnTail(h, suggestions, eps, over_budget, rpa),
                  suggestions, eps, recorded) :
              suggestions \in get_best_split_suggestions(h.T.nodes[h.path]),
              eps \in Epsilons, over_budget \in BOOLEAN}
    ELSE {Outcome(h, [T |-> h.T, raised |-> FALSE], << >>, 0, recorded)}

\* The kind of the node at path p, "none" where the tree has no node.
KindAt(T, p) == IF p \in DOMAIN T.nodes THEN T.nodes[p].kind ELSE "none"

\* What the caller of learn_one gets: the method has no return statement, so
\* a call that does not raise evaluates to None.
learn_one_returns(raised) == IF raised THEN "nothing" ELSE "None"

\* One learn_one(x, y) call, for some instance x and target y.
Learn(recorded) ==
    \E h \in LearnHeads(ht) :
        \E o \in LearnOutcomes(h, remove_poor_atts, recorded) :
            /\ ht' = o.T
            /\ tl' = [op |-> "learn", attempted |-> o.attempted, raised |-> o.raised,
                      path |-> o.path, was |-> KindAt(ht, o.path),
                      suggestions |-> o.suggestions, eps |-> o.eps,
                      at_attempt |-> o.at_attempt,
                      returned |-> learn_one_returns(o.raised)]
            /\ nlearn' = nlearn + 1
            /\ pr' = NoPrediction
            /\ UNCHANGED <<remove_poor_atts, detVars, chainVars, extraVars>>

LearnOne ==
    /\ nlearn < MaxLearn
    /\ Learn(FALSE)

\* One prediction for some instance x, asked of the regressor (predict_one)
\* and of the adaptive classifier (predict_proba_one) on the same tree.
PredictOne ==
    \E x \in Instances :
        LET has_root == << >> \in DOMAIN ht.nodes
            found_nodes == IF has_root THEN _filter_instance_to_leaves(ht, x) ELSE << >>
            f == filter_instance_to_leaf(ht.nodes, << >>, x)
        IN  /\ pr' = [op |-> "predict", x |-> x, has_root |-> has_root,
                      found |-> IF has_root THEN f.found ELSE "none",
                      path |-> IF has_root THEN f.path ELSE << >>,
                      regressor |-> predict_one(ht, x),
                      creme |-> predict_proba_one(has_root, found_nodes),
                      river |-> river_predict_proba_one(ClassesSeen(ht), has_root,
                                                        found_nodes)]
            /\ UNCHANGED <<ht, tl, nlearn, remove_poor_atts, detVars, chainVars, extraVars>>

\* reset(): back to the tree without a root.
ResetTree ==
    /\ tl.op = "learn"
    /\ ht' = EmptyTree
    /\ tl' = [NoTreeCall EXCEPT !.op = "reset"]
    /\ nlearn' = nlearn
    /\ pr' = NoPrediction
    /\ UNCHANGED <<remove_poor_atts, detVars, chainVars, extraVars>>

TreeInit ==
    /\ DetInit
    /\ ChainFresh
    /\ ExtraFresh
    /\ two_sided = FALSE
    /\ TreeFresh
    /\ remove_poor_atts \in BOOLEAN

TreeNext == LearnOne \/ ResetTree

SpecTree == TreeInit /\ [][TreeNext]_vars

\* A run that records the inputs of each split attempt.
LearnRecorded ==
    /\ nlearn < SplitLearns
    /\ Learn(TRUE)

SpecSplit == TreeInit /\ [][LearnRecorded]_vars

\* Learning and predicting interleaved.
LearnBeforePredict ==
    /\ nlearn < PredictLearns
    /\ Learn(FALSE)

PredictNext == LearnBeforePredict \/ PredictOne

SpecPredict == TreeInit /\ [][PredictNext]_vars

(***************************************************************************)
(* Leaves converted between active and inactive by the memory governor,    *)
(* on a tree whose split nodes may carry an alternate subtree.             *)
(***************************************************************************)
\* A split node without an alternate gets a new single-leaf alternate
\* subtree, at the split node's own level.
StartAlternate ==
    \E p \in DOMAIN ht.nodes :
        /\ ht.nodes[p].kind = "split"
        /\ Append(p, AltBranch) \notin DOMAIN ht.nodes
        /\ ht' = [ht EXCEPT !.nodes = set_child(ht.nodes, Append(p, AltBranch),
                                 [_new_learning_node(NoStats, <<ht.nodes[p]>>, TRUE)
                                      EXCEPT !.depth = @ - 1]),
                             !.n_active_leaves = @ + 1]
        /\ tl' = [NoTreeCall EXCEPT !.op = "alternate", !.path = Append(p, AltBranch)]
        /\ pr' = NoPrediction
        /\ UNCHANGED <<nlearn, remove_poor_atts, detVars, chainVars, extraVars>>

\* The governor deactivates some active leaf.
Deactivate ==
    \E p \in DOMAIN ht.nodes :
        /\ ht.nodes[p].kind = "active"
        /\ ht' = _deactivate_leaf(ht, p)
        /\ tl' = [NoTreeCall EXCEPT !.op = "deactivate", !.path = p,
                                    !.was = "active", !.at_attempt = ht]
        /\ pr' = NoPrediction
        /\ UNCHANGED <<nlearn, remove_poor_atts, detVars, chainVars, extraVars>>

\* The governor activates some inactive leaf.
Activate ==
    \E p \in DOMAIN ht.nodes :
        /\ ht.nodes[p].kind = "inactive"
        /\ ht' = _activate_leaf(ht, p)
        /\ tl' = [NoTreeCall EXCEPT !.op = "activate", !.path = p,
                                    !.was = "inactive", !.at_attempt = ht]
        /\ pr' = NoPrediction
        /\ UNCHANGED <<nlearn, remove_poor_atts, detVars, chainVars, extraVars>>

LearnBeforeGovern ==
    /\ nlearn < LeafLearns
    /\ Learn(FALSE)

LeafNext == LearnBeforeGovern \/ StartAlternate \/ Deactivate \/ Activate

SpecLeaf == TreeInit /\ [][LeafNext]_vars

(***************************************************************************)
(* predict_proba_one over the lists of found nodes an adaptive tree with   *)
(* alternate subtrees returns.                                             *)
(***************************************************************************)
ProbaStats == {[n |-> 1, sum |-> 0], [n |-> 1, sum |-> 1], [n |-> 2, sum |-> 1]}

ProbaLeaves == {Node("active", 1, st) : st \in ProbaStats}

ProbaSplits == {Node("split", 0, st) : st \in {[n |-> 2, sum |-> 1], [n |-> 3, sum |-> 1]}}

Branches == 0 .. MaxBranch

\* The found node of the main path: the root leaf, a leaf below a split
\* node, or a branch without a child.
MainFound ==
    {FoundNode(<<l>>, << >>, 0 - 1) : l \in ProbaLeaves}
    \cup {FoundNode(<<l>>, <<sp>>, b) : l \in ProbaLeaves, sp \in ProbaSplits, b \in Branches}
    \cup {FoundNode(<< >>, <<sp>>, b) : sp \in ProbaSplits, b \in Branches}

\* The found node of an alternate subtree: its root when that is a leaf
\* (parent_branch -999), or a leaf or a missing child below its root.
AltFound ==
    {FoundNode(<<l>>, <<sp>>, AltBranch) : l \in ProbaLeaves, sp \in ProbaSplits}
    \cup {FoundNode(<<l>>, <<sp>>, b) : l \in ProbaLeaves, sp \in ProbaSplits, b \in Branches}
    \cup {FoundNode(<< >>, <<sp>>, b) : sp \in ProbaSplits, b \in Branches}

RECURSIVE AltLists(_)
AltLists(k) ==
    IF k = 0 THEN {<< >>}
    ELSE {<< >>} \cup {<<o>> \o t : o \in AltFound, t \in AltLists(k - 1)}

\* One result for the main path, then one per alternate subtree on the way.
FoundLists == {<<m>> \o t : m \in MainFound, t \in AltLists(MaxFound - 1)}

ProbaInit ==
    /\ DetInit
    /\ ChainFresh
    /\ ExtraFresh
    /\ two_sided = FALSE
    /\ ht = EmptyTree
    /\ tl = NoTreeCall
    /\ nlearn = 0
    /\ remove_poor_atts = FALSE
    /\ pr \in {[op |-> "found", found_nodes |-> l] : l \in FoundLists}

\* predict_proba_one on a tree whose sorting returns pr.found_nodes.
PredictProba ==
    /\ pr.op = "found"
    /\ pr' = [op |-> "proba", found_nodes |-> pr.found_nodes,
              creme |-> predict_proba_one(TRUE, pr.found_nodes),
              river |-> river_predict_proba_one(Ys, TRUE, pr.found_nodes)]
    /\ UNCHANGED <<ht, tl, nlearn, remove_poor_atts, detVars, chainVars, extraVars>>

SpecProba == ProbaInit /\ [][PredictProba]_vars

(***************************************************************************)
(* A chain under learn_one and prediction calls.                           *)
(***************************************************************************)
\* The examples given to the chain: one feature of its own.
ChainXs == {[k \in {<<0>>} |-> FloatValue(v)] : v \in {0, 1}}

\* The targets: one per output, labels for a classifier, numbers otherwise.
ChainYs(c) ==
    [Outputs -> IF c.kind = "regressor" THEN {0, 2}
                ELSE IF c.multiclass THEN MultiLabels ELSE BinaryLabels]

\* A chain is built binary, multiclass or of regressors, without an order or
\* with one over two outputs.
ChainInit ==
    /\ DetInit
    /\ TreeFresh
    /\ ExtraFresh
    /\ remove_poor_atts = FALSE
    /\ \E cfg \in {<<"classifier", FALSE>>, <<"classifier", TRUE>>, <<"regressor", FALSE>>},
          order \in {<< >>, <<1, 2>>, <<2, 1>>} :
            ch = BaseChain_init(cfg[1], cfg[2], order)
    /\ cl = [op |-> "init"]

\* chain.learn_one(x, y)
ChainLearn ==
    /\ \A o \in DOMAIN ch.models : ch.models[o].n < ChainCalls
    /\ \E x \in ChainXs, y \in ChainYs(ch) :
          LET r == Chain_learn_one(ch, x, y)
          IN  /\ ch' = r.chain
              /\ cl' = [op |-> "learn", before |-> ch, x_before |-> x, y_before |-> y,
                        x |-> r.x, y |-> r.y, steps |-> r.steps, returned |-> r.returned]
    /\ UNCHANGED <<detVars, treeVars, extraVars>>

\* chain.predict_proba_one(x) of a ClassifierChain, chain.predict_one(x) of
\* a RegressorChain
ChainPredict ==
    /\ \E x \in ChainXs :
          LET r == Chain_predict_one(ch, x)
          IN  cl' = [op |-> "predict", before |-> ch, x_before |-> x,
                     x |-> r.x, steps |-> r.steps, returned |-> r.returned]
    /\ UNCHANGED <<ch, detVars, treeVars, extraVars>>

SpecChain == ChainInit /\ [][ChainLearn \/ ChainPredict]_vars

(***************************************************************************)
(* A split node of an adaptive tree under drift signals and examples.      *)
(***************************************************************************)
\* The node's change detector signals drift while there is no alternate: a
\* new single-leaf alternate starts to grow.
Drift ==
    /\ am.state = "NO_ALTERNATE"
    /\ am.created < MaxAlternates
    /\ am' = [am EXCEPT !.state = "GROWING_ALTERNATE", !.alt = NoWindow,
                        !.created = @ + 1,
                        !.last = [op |-> "create", alt_seen |-> 0]]
    /\ UNCHANGED <<ob, oq, tw, detVars, treeVars, chainVars>>

\* An example is routed through the node.
Route ==
    /\ am.orig.seen + am.promoted + am.pruned < MaxRouted
    /\ \E wrong_orig \in BOOLEAN, wrong_alt \in BOOLEAN :
          am' = RouteExample(am, wrong_orig, wrong_alt)
    /\ UNCHANGED <<ob, oq, tw, detVars, treeVars, chainVars>>

SpecManager == Init /\ [][Drift \/ Route]_vars

(***************************************************************************)
(* An attribute observer under updates and split queries.                  *)
(***************************************************************************)
ObserverWeight == LET seen == DOMAIN ob.n_samples
                  IN  (IF 1 \in seen THEN ob.n_samples[1] ELSE 0)
                      + (IF 2 \in seen THEN ob.n_samples[2] ELSE 0)

\* observer.update(att_val, class_val, sample_weight)
ObserverUpdate ==
    /\ ObserverWeight < MaxObserved
    /\ \E att_val \in {None, 0, 2, 4}, class_val \in {1, 2}, sample_weight \in {1, 2} :
            /\ ob' = observer_update(ob, att_val, class_val, sample_weight)
            /\ oq' = [op |-> "update"]
    /\ UNCHANGED <<am, tw, detVars, treeVars, chainVars>>

\* observer.get_class_dists_from_binary_split(split_value), for a split value
\* between, at or outside the values observed
ObserverSplit ==
    /\ \E split_value \in (0 - 1) .. 5, cdf \in [DOMAIN ob.n_samples -> CdfValues] :
          LET r == get_class_dists_from_binary_split(ob, split_value, cdf)
          IN  oq' = [op |-> "split", split_value |-> split_value,
                     lhs_dist |-> r.lhs_dist, rhs_dist |-> r.rhs_dist]
    /\ UNCHANGED <<ob, am, tw, detVars, treeVars, chainVars>>

SpecObserver == Init /\ [][ObserverUpdate \/ ObserverSplit]_vars

(***************************************************************************)
(* Two trees of the same configuration under the same examples.            *)
(***************************************************************************)
TwinInit ==
    /\ DetInit
    /\ TreeFresh
    /\ ChainFresh
    /\ am = NoManager
    /\ ob = NewObserver
    /\ oq = [op |-> "init"]
    /\ remove_poor_atts \in BOOLEAN
    /\ \E bootstrap_sampling \in BOOLEAN, random_state \in Seeds \cup {None} :
          tw = Twins(bootstrap_sampling, random_state)

\* The trees two calls can leave that have come to the heads ha and hb.  The
\* collaborators are functions of what they are asked about: they answer the
\* two calls alike when the two have come to the same point.
TwinOutcomes(ha, hb, rpa) ==
    IF ha = hb
    THEN {<<TwinTail(ha, ans, rpa), TwinTail(hb, ans, rpa)>> : ans \in Answers(ha)}
    ELSE {TwinTail(ha, ans, rpa) : ans \in Answers(ha)}
           \X {TwinTail(hb, ans, rpa) : ans \in Answers(hb)}

\* learn_one(x, y) on both trees, each with the weight its own random source
\* gives the example.  A run is followed until the two trees differ.
TwinLearn ==
    /\ tw.n < TwinLearns
    /\ tw.a = tw.b
    /\ \E x \in Instances, y \in Ys,
          ka \in BootstrapWeights(tw, tw.a), kb \in BootstrapWeights(tw, tw.b) :
          \E o \in TwinOutcomes(TwinHead(tw.a.T, x, y, ka), TwinHead(tw.b.T, x, y, kb),
                                remove_poor_atts) :
              tw' = [tw EXCEPT !.a = [T |-> o[1], pos |-> @.pos + 1],
                               !.b = [T |-> o[2], pos |-> @.pos + 1],
                               !.n = @ + 1]
    /\ UNCHANGED <<am, ob, oq, remove_poor_atts, hd, two_sided, last, fed, reset_kind,
                   nresets, nfed, first_drift, ht, tl, nlearn, pr, chainVars>>

SpecTwins == TwinInit /\ [][TwinLearn]_vars

(***************************************************************************)
(* Claims about HDDM_W.                                                    *)
(***************************************************************************)

\* The increase test of the specification at a confidence level: both samples
\* hold a value and sample2's mean exceeds sample1's by more than the bound.
IncreaseTest(d, confidence) ==
    /\ d.sample1_incr_monitor.EWMA_estimator >= 0
    /\ d.sample2_incr_monitor.EWMA_estimator >= 0
    /\ d.sample2_incr_monitor.EWMA_estimator - d.sample1_incr_monitor.EWMA_estimator
         > HoeffdingEps(d.sample1_incr_monitor.independent_bounded_condition_sum
                          + d.sample2_incr_monitor.independent_bounded_condition_sum,
                        confidence)

\* Every field reset() clears is cleared in d, sample2_decr_monitor excepted
\* (update folds the sample into it after the flags are decided).
ClearedByReset(d) ==
    /\ d.total = SampleInfo
    /\ d.sample1_incr_monitor = SampleInfo
    /\ d.sample2_incr_monitor = SampleInfo
    /\ d.sample1_decr_monitor = SampleInfo
    /\ d.incr_cutpoint = Inf
    /\ d.decr_cutpoint = Inf
    /\ d.width = 0
    /\ d.delay = 0

RECURSIVE FeedRun(_, _, _, _)
\* The detector d fed k more samples of one bit.
FeedRun(d, bit, k, two) ==
    IF k = 0 THEN d
    ELSE IF k = 1 THEN update(d, bit, two)
    ELSE CHOOSE r \in {FeedRun(h, bit, k - k \div 2, two) :
                           h \in {FeedRun(d, bit, k \div 2, two)}} : TRUE

\* C2 (as claimed): after any reset, explicit or inside the update that
\* reported drift, a detector fed k samples of one bit has the same total,
\* monitors, cut points, width and delay as a fresh detector fed the same.
C2_ResetLaw ==
    (reset_kind # "fresh" /\ fed.sw = 0) =>
        Core(hd) = Core(FeedRun(HDDM_W_init, fed.first, fed.n, two_sided))

\* C3: on a run of samples that all equal one bit, from construction or from
\* any reset, no update returns inDrift or inWarning.
C3_NoAlarmOnConstant ==
    (last.op = "update" /\ last.run.sw = 0) => Returned(hd) = <<FALSE, FALSE>>

\* C3 witness: a constant run after a reset, long enough for sample2 to hold
\* values, so that the increase test is evaluated on both samples.
C3_Witness ==
    /\ last.op = "update"
    /\ last.run.sw = 0
    /\ reset_kind # "fresh"
    /\ two_sided
    /\ hd.sample2_incr_monitor.EWMA_estimator >= 0
    /\ hd.sample1_incr_monitor.EWMA_estimator >= 0

\* C4 (Scenario A): no drift during the zeros nor on the first one, and a
\* drift on a later one before all the ones are consumed.
C4_ScenarioA ==
    /\ nfed <= NZeros + 1 => first_drift = 0
    /\ nfed = NZeros + NOnes => (first_drift > NZeros + 1 /\ first_drift < NZeros + NOnes)

\* C4 witness: the whole stream consumed, with a drift reported on the way.
C4_Witness == nfed = NZeros + NOnes /\ first_drift > 0

\* The increase test fires at drift_confidence on the last sample of the
\* stream 0^a 1^b given to a fresh detector.
IncreaseFiresOn(a, b) ==
    update(FeedRun(FeedRun(HDDM_W_init, 0, a, FALSE), 1, b - 1, FALSE), 1, FALSE)
        .in_concept_change

\* C5 (as claimed): with two_sided_test, a sustained decrease makes the
\* decrease test fire and the update reset the detector.  The decrease test
\* is the mirror image of the increase test, so on ones followed by zeros it
\* is due where the increase test fires on zeros followed by ones.
C5_DecreaseDriftResets ==
    (/\ two_sided
     /\ last.op = "update"
     /\ last.run.sw = 1
     /\ last.run.first = 1
     /\ IncreaseFiresOn(last.run.n1, last.run.n - last.run.n1))
    => ResetInside(hd)

(***************************************************************************)
(* Claims about the Hoeffding tree.                                        *)
(***************************************************************************)
\* The node at path p is reachable from the root through child edges only.
MainPath(T, p) ==
    \A k \in 1 .. Len(p) :
        /\ SubSeq(p, 1, k - 1) \in DOMAIN T.nodes
        /\ T.nodes[SubSeq(p, 1, k - 1)].kind = "split"
        /\ p[k] \in 0 .. Len(T.nodes[SubSeq(p, 1, k - 1)].vals) - 1

Leaves(T, kind) == {p \in DOMAIN T.nodes : MainPath(T, p) /\ T.nodes[p].kind = kind}

LeafSum(T) == T.n_active_leaves + T.n_inactive_leaves

\* C6: in every state reached by learn_one calls the counter of active leaves
\* is the number of active leaves reachable from the root through child
\* edges, the counter of inactive leaves is the number of inactive ones, and
\* so their sum is the number of leaves of the main tree.
C6_LeafCounters ==
    /\ ht.n_active_leaves = Cardinality(Leaves(ht, "active"))
    /\ ht.n_inactive_leaves = Cardinality(Leaves(ht, "inactive"))
    /\ LeafSum(ht) = Cardinality(Leaves(ht, "active") \cup Leaves(ht, "inactive"))
    /\ Leaves(ht, "active") \cap Leaves(ht, "inactive") = {}

\* A tree with split nodes at two levels, an inactive leaf and an active one.
C6_Witness ==
    /\ tl.op = "learn"
    /\ ht.n_decision_nodes >= 2
    /\ ht.n_inactive_leaves >= 1
    /\ ht.n_active_leaves >= 1

\* C7: a learn_one call never lowers n_active_leaves + n_inactive_leaves,
\* whatever it triggers: a split, a deactivation by the null split or at
\* max_depth, a branch added for an unseen value.  Only reset() lowers it.
C7_LeafSumMonotone ==
    [][tl'.op = "learn" => LeafSum(ht') >= LeafSum(ht)]_vars

\* A call split a leaf below the root and the tree has a deactivated leaf.
C7_Witness ==
    /\ tl.op = "learn"
    /\ tl.attempted
    /\ tl.path # << >>
    /\ ht.nodes[tl.path].kind = "split"
    /\ ht.n_inactive_leaves >= 1

\* The last call attempted a split with its inputs recorded.
Attempted(k) == tl.op = "learn" /\ tl.attempted /\ Len(tl.suggestions) >= k

BestMerit == tl.suggestions[Len(tl.suggestions)].merit

SecondMerit == tl.suggestions[Len(tl.suggestions) - 1].merit

\* The attempt replaced the leaf, by a split node or by an inactive leaf.
Approved == ht.nodes[tl.path].kind # "active"

\* The tree structure and the node counters are as the attempt found them.
Untouched ==
    /\ DOMAIN ht.nodes = DOMAIN tl.at_attempt.nodes
    /\ \A p \in DOMAIN ht.nodes :
           /\ ht.nodes[p].kind = tl.at_attempt.nodes[p].kind
           /\ ht.nodes[p].depth = tl.at_attempt.nodes[p].depth
           /\ ht.nodes[p].att = tl.at_attempt.nodes[p].att
           /\ ht.nodes[p].vals = tl.at_attempt.nodes[p].vals
    /\ ht.n_active_leaves = tl.at_attempt.n_active_leaves
    /\ ht.n_inactive_leaves = tl.at_attempt.n_inactive_leaves
    /\ ht.n_decision_nodes = tl.at_attempt.n_decision_nodes

C9_ZeroMeritNeverSplits ==
    (Attempted(1) /\ BestMerit = 0) => Untouched

\* C9 amended: with at least two candidates, a best merit of 0 leaves the
\* tree structure and the node counters unchanged.
C9_ZeroMeritNeverSplits_TwoCandidates ==
    (Attempted(2) /\ BestMerit = 0) => Untouched

\* An attempt with three candidates of merit 0 under a bound below the tie
\* threshold left the leaf in place.
C9_Witness ==
    /\ Attempted(3)
    /\ BestMerit = 0
    /\ tl.eps < TieThreshold
    /\ ~tl.raised
    /\ ~Approved

\* C10: a split attempt never ends in a division by zero, in particular not
\* when the best merit is 0 and poor-attribute removal is on.
C10_NoZeroDivision ==
    tl.op = "learn" => ~tl.raised


\* The leaf a recorded split attempt started from, as it was after learning
\* the sample and before _attempt_to_split.
AttemptLeaf == tl.at_attempt.nodes[tl.path]

StillActive == tl.path \in DOMAIN ht.nodes /\ ht.nodes[tl.path].kind = "active"

\* C11: a split attempt is made only when the weight the leaf has seen since
\* its last attempt is at least grace_period, and the weight seen is recorded
\* as last_split_attempt_at afterwards (on the leaf, when it is still the
\* active leaf at its place), so that two attempts on one leaf are at least
\* grace_period of weight apart.
C11_GraceThrottle ==
    Attempted(0) =>
        /\ AttemptLeaf.n - AttemptLeaf.last_split_attempt_at >= GracePeriod
        /\ StillActive => ht.nodes[tl.path].last_split_attempt_at = AttemptLeaf.n

\* C12: an inactive leaf reached by learn_one learns the sample (its weight
\* grows by the sample weight, its sum by the target) and stays an inactive
\* leaf at its place and depth, with no split attempt; no learn_one turns an
\* inactive leaf into anything else, and a node that becomes a split node
\* was the active leaf the call reached.
C12_InactiveNeverSplits ==
    [][tl'.op = "learn" =>
          /\ tl'.was = "inactive" =>
                /\ ~tl'.attempted
                /\ KindAt(ht', tl'.path) = "inactive"
                /\ ht'.nodes[tl'.path].depth = ht.nodes[tl'.path].depth
                /\ ht'.nodes[tl'.path].n = ht.nodes[tl'.path].n + SampleWeight
                /\ ht'.nodes[tl'.path].sum - ht.nodes[tl'.path].sum \in Ys
          /\ \A q \in DOMAIN ht.nodes :
                /\ ht.nodes[q].kind = "inactive" => KindAt(ht', q) = "inactive"
                /\ (ht.nodes[q].kind # "split" /\ KindAt(ht', q) = "split") =>
                      (ht.nodes[q].kind = "active" /\ q = tl'.path /\ tl'.attempted)
    ]_vars

\* An inactive leaf that is not the root has been reached by learn_one while
\* another node of the tree is a split node.
C12_Witness ==
    /\ tl.op = "learn"
    /\ tl.was = "inactive"
    /\ tl.path # << >>
    /\ ht.nodes[tl.path].n >= 2

\* No split node at max_depth or below it, no leaf below max_depth.
DepthBounded(T) ==
    \A q \in DOMAIN T.nodes :
        IF T.nodes[q].kind = "split" THEN T.nodes[q].depth < MaxDepth
        ELSE T.nodes[q].depth <= MaxDepth

\* C13: in every reachable state no split node has depth >= max_depth and no
\* leaf has depth > max_depth; and an active leaf of depth >= max_depth that
\* learn_one reaches becomes an inactive leaf at its place, with the sample
\* learned and without a split attempt.
C13_MaxDepth ==
    /\ []DepthBounded(ht)
    /\ [][(tl'.op = "learn" /\ tl'.was = "active"
             /\ ht.nodes[tl'.path].depth >= MaxDepth) =>
              /\ ~tl'.attempted
              /\ KindAt(ht', tl'.path) = "inactive"
              /\ ht'.nodes[tl'.path].depth = ht.nodes[tl'.path].depth
              /\ ht'.nodes[tl'.path].n = ht.nodes[tl'.path].n + SampleWeight
       ]_vars

\* learn_one has reached a leaf at max_depth that was active.
C13_Witness ==
    /\ tl.op = "learn"
    /\ tl.was = "active"
    /\ ht.nodes[tl.path].depth = MaxDepth
    /\ ht.nodes[tl.path].kind = "inactive"

\* The last learn_one call added a leaf below an existing split node.
BranchAdded(call) == call.op = "learn" /\ call.was = "none" /\ call.path # << >>

Front(p) == SubSeq(p, 1, Len(p) - 1)

\* C14: when learn_one reaches a split node that has no branch for the
\* example's value, the call does not raise; the split test gets one more
\* branch, for a value it did not have, after the branches it had; a new
\* active leaf of depth one more than the split node sits at the new branch
\* index and has learned the sample; n_active_leaves grows by exactly one
\* and the other counters and every other node stay as they were.
C14_UnseenBranch ==
    [][BranchAdded(tl') =>
          LET p == tl'.path
              current == ht.nodes[Front(p)]
              grown == ht'.nodes[Front(p)]
          IN  /\ ~tl'.raised
              /\ KindAt(ht, Front(p)) = "split"
              /\ KindAt(ht', p) = "active"
              /\ DOMAIN ht'.nodes = DOMAIN ht.nodes \cup {p}
              /\ p[Len(p)] = Len(current.vals)
              /\ Len(grown.vals) = Len(current.vals) + 1
              /\ SubSeq(grown.vals, 1, Len(current.vals)) = current.vals
              /\ \A i \in 1 .. Len(current.vals) :
                    current.vals[i] # grown.vals[Len(grown.vals)]
              /\ grown = [current EXCEPT !.vals = grown.vals]
              /\ ht'.nodes[p].depth = current.depth + 1
              /\ ht'.nodes[p].n = SampleWeight
              /\ ht'.nodes[p].sum \in Ys
              /\ ht'.n_active_leaves = ht.n_active_leaves + 1
              /\ ht'.n_inactive_leaves = ht.n_inactive_leaves
              /\ ht'.n_decision_nodes = ht.n_decision_nodes
              /\ \A q \in DOMAIN ht.nodes : q # Front(p) => ht'.nodes[q] = ht.nodes[q]
    ]_vars

\* A leaf has been added at the second branch of a split node that had one
\* child.
C14_Witness ==
    /\ BranchAdded(tl)
    /\ tl.path[Len(tl.path)] = 1
    /\ Append(Front(tl.path), 0) \in DOMAIN ht.nodes
    /\ ht.nodes[tl.path].kind = "active"

\* The split node at which the sorting of the predicted instance stopped.
Ancestor ==
    IF pr.found = "split" THEN ht.nodes[pr.path] ELSE ht.nodes[Front(pr.path)]

C16_PredictOnEmptyTree ==
    (pr.op = "predict" /\ ~pr.has_root) =>
        /\ ~pr.regressor.raised
        /\ pr.regressor.value = 0
        /\ DOMAIN pr.creme.returned = {}
        /\ \A c \in DOMAIN pr.river.returned : pr.river.returned[c] = 0
        /\ ht = EmptyTree

\* A prediction has been asked of a tree that never learned.
C16_Witness ==
    /\ pr.op = "predict"
    /\ ~pr.has_root
    /\ nlearn = 0
    /\ ht.nodes = << >>

\* The weight of class c in the statistics predict_proba_one reads for the
\* i-th found node: those of the node, of the parent when the node is None.
ClassWeight(fn, c) ==
    LET nd == IF fn.node = << >> THEN fn.parent[1] ELSE fn.node[1]
    IN  IF c = 1 THEN nd.sum ELSE nd.n - nd.sum

RECURSIVE WeightOver(_, _, _)
WeightOver(fns, I, c) ==
    IF I = {} THEN 0
    ELSE LET i == CHOOSE j \in I : TRUE
         IN  ClassWeight(fns[i], c) + WeightOver(fns, I \ {i}, c)

\* The found nodes that are not alternate roots.
Counted(fns) == {i \in 1 .. Len(fns) : fns[i].parent_branch # AltBranch}

At(d, c) == IF c \in DOMAIN d THEN d[c] ELSE 0

\* C17: the distribution predict_proba_one combines is, class by class, the
\* sum over exactly the found nodes whose parent_branch is not -999, the
\* main path's found node among them; creme returns its softmax, river
\* its normalisation.
C17_AlternateRootsSkipped ==
    pr.op = "proba" =>
        /\ 1 \in Counted(pr.found_nodes)
        /\ \A c \in Ys :
              /\ At(pr.creme.combined, c) = WeightOver(pr.found_nodes, Counted(pr.found_nodes), c)
              /\ At(pr.river.combined, c) = WeightOver(pr.found_nodes, Counted(pr.found_nodes), c)
              /\ c \in DOMAIN pr.creme.combined => pr.creme.combined[c] > 0
        /\ pr.creme.returned = softmax(pr.creme.combined)
        /\ pr.river.returned = normalize_values_in_dict(pr.river.combined)

\* A prediction from a main-path leaf and an alternate root that is a leaf
\* with weight of a class the main-path leaf has none of.
C17_Witness ==
    /\ pr.op = "proba"
    /\ Len(pr.found_nodes) = 2
    /\ pr.found_nodes[1].node # << >>
    /\ pr.found_nodes[2].parent_branch = AltBranch
    /\ ClassWeight(pr.found_nodes[1], 1) = 0
    /\ ClassWeight(pr.found_nodes[2], 1) > 0
    /\ DOMAIN pr.creme.combined = {0}

\* Tree R is tree B with the leaf at path p turned into a leaf of the given
\* kind, with the same statistics and depth, at the same place, and with d
\* moved from the inactive to the active counter.
Converted(B, R, p, kind, d) ==
    /\ DOMAIN R.nodes = DOMAIN B.nodes
    /\ \A q \in DOMAIN B.nodes : q # p => R.nodes[q] = B.nodes[q]
    /\ R.nodes[p].kind = kind
    /\ Stats(R.nodes[p]) = Stats(B.nodes[p])
    /\ R.nodes[p].depth = B.nodes[p].depth
    /\ R.n_active_leaves = B.n_active_leaves + d
    /\ R.n_inactive_leaves = B.n_inactive_leaves - d
    /\ R.n_decision_nodes = B.n_decision_nodes

\* C18: _deactivate_leaf puts an inactive leaf with the same statistics and
\* depth in the place of the active leaf (root, child, or alternate of its
\* parent) and moves one unit from n_active_leaves to n_inactive_leaves;
\* _activate_leaf does the reverse; and activating a leaf that has just
\* been deactivated gives back the counters and the leaf's place,
\* statistics and depth.
C18_DeactivateActivateInverse ==
    /\ tl.op = "deactivate" =>
          Converted(tl.at_attempt, ht, tl.path, "inactive", 0 - 1)
    /\ tl.op = "activate" =>
          Converted(tl.at_attempt, ht, tl.path, "active", 1)
    /\ \A p \in DOMAIN ht.nodes :
          ht.nodes[p].kind = "active" =>
              Converted(ht, _activate_leaf(_deactivate_leaf(ht, p), p), p, "active", 0)

\* The leaf that is the alternate subtree of a split node below the root has
\* been deactivated and then activated.
C18_Witness ==
    /\ tl.op = "activate"
    /\ Len(tl.path) >= 2
    /\ tl.path[Len(tl.path)] = AltBranch
    /\ ht.nodes[tl.path].depth = 1
    /\ ht.n_inactive_leaves = 0

\* The best suggestion of the recorded attempt.
Best == tl.suggestions[Len(tl.suggestions)]

\* C19: when an approved split attempt has the null split as its best
\* suggestion, the leaf becomes an inactive leaf at its place, with its
\* statistics and depth, and no split node is created: the tree has the
\* same nodes, n_decision_nodes is unchanged and so is
\* n_active_leaves + n_inactive_leaves.
C19_NullSplitDeactivates ==
    (Attempted(1) /\ ~tl.raised /\ Best.att = 0
       /\ ShouldSplit(tl.suggestions, tl.eps)) =>
        /\ DOMAIN ht.nodes = DOMAIN tl.at_attempt.nodes
        /\ ht.nodes[tl.path].kind = "inactive"
        /\ Stats(ht.nodes[tl.path]) = Stats(AttemptLeaf)
        /\ ht.nodes[tl.path].depth = AttemptLeaf.depth
        /\ \A q \in DOMAIN ht.nodes :
              (ht.nodes[q].kind = "split") = (tl.at_attempt.nodes[q].kind = "split")
        /\ ht.n_decision_nodes = tl.at_attempt.n_decision_nodes
        /\ ht.n_active_leaves + ht.n_inactive_leaves
              = tl.at_attempt.n_active_leaves + tl.at_attempt.n_inactive_leaves
        /\ ht.n_active_leaves < tl.at_attempt.n_active_leaves

\* The null split has won against an attribute's suggestion by the merit
\* test, on a leaf below a split node.
C19_Witness ==
    /\ Attempted(2)
    /\ ~tl.raised
    /\ Best.att = 0
    /\ tl.suggestions[Len(tl.suggestions) - 1].att # 0
    /\ SecondMerit < BestMerit
    /\ tl.path # << >>
    /\ ht.nodes[tl.path].kind = "inactive"
    /\ ht.n_decision_nodes = 1

\* The attributes the poor-attribute pass of the recorded attempt finds:
\* those with a suggestion whose merit over the best merit is below the
\* ratio of the two best merits minus twice the Hoeffding bound.
PoorInAttempt ==
    {a \in Atts : \E i \in 1 .. Len(tl.suggestions) :
        /\ tl.suggestions[i].att = a
        /\ tl.suggestions[i].merit * EpsUnit
              < SecondMerit * EpsUnit - 2 * tl.eps * BestMerit}

\* C20 as stated: a split attempt that is not approved disables no attribute
\* of the leaf.
C20_NoPruningWithoutApproval ==
    (Attempted(2) /\ ~Approved) =>
        ht.nodes[tl.path].disabled = AttemptLeaf.disabled

\* C20, amended: a split attempt that is not approved disables exactly the
\* poor attributes when remove_poor_atts is on, there are at least two
\* candidates and the best merit is positive, and no attribute otherwise
\* (remove_poor_atts off, no candidate, or a best merit of 0, on which the
\* pass raises before it disables anything).
C20_PruningWithoutApproval ==
    (Attempted(0) /\ ~Approved) =>
        ht.nodes[tl.path].disabled =
            AttemptLeaf.disabled
                \cup (IF remove_poor_atts /\ Len(tl.suggestions) >= 2 /\ BestMerit > 0
                      THEN PoorInAttempt ELSE {})

\* An attempt that was not approved has disabled an attribute of the leaf.
C20_Witness ==
    /\ Attempted(3)
    /\ ~Approved
    /\ ~tl.raised
    /\ AttemptLeaf.disabled = {}
    /\ ht.nodes[tl.path].disabled # {}

(***************************************************************************)
(* Further claims about HDDM_W.                                            *)
(***************************************************************************)
\* C27: the first update after construction or after any reset (width was
\* 0) returns (False, False), sets the increase cut point to the first
\* sample plus its bound, with sample1 the total and sample2 empty; and no
\* two consecutive updates both report drift.
C27_NoAlarmOnFirstUpdate ==
    /\ [](last.op = "update" /\ last.pre.width = 0 =>
            /\ Returned(hd) = <<FALSE, FALSE>>
            /\ hd.width = 1
            /\ hd.total.EWMA_estimator = last.value * Scale
            /\ hd.incr_cutpoint < Inf
            /\ hd.incr_cutpoint > hd.total.EWMA_estimator
            /\ hd.sample1_incr_monitor = hd.total
            /\ hd.sample2_incr_monitor = SampleInfo
            /\ hd.delay = 0)
    /\ [][(last.op = "update" /\ hd.in_concept_change /\ last'.op = "update")
             => ~hd'.in_concept_change]_vars

\* The update that follows an update which reported drift.
C27_Witness ==
    /\ last.op = "update"
    /\ last.pre.in_concept_change
    /\ last.pre.width = 0
    /\ hd.width = 1

PredictionOf(models, o) ==
    IF cl.before.kind = "classifier"
    THEN clf_predict_proba_one(models[o], cl.before.multiclass)
    ELSE reg_predict_one(models[o])

\* The models as they were when the last learn_one began.
ModelsBefore ==
    IF cl.before.order = << >> THEN _init_models(ch.order) ELSE cl.before.models

\* The features a prediction adds for the outputs after o.
FeaturesOf(o, y_pred) ==
    IF cl.before.kind = "regressor" THEN [k \in {<<o>>} |-> FloatValue(y_pred)]
    ELSE IF cl.before.multiclass
         THEN [k \in {<<o, l>> : l \in DOMAIN y_pred} |-> FloatValue(y_pred[k[2]])]
         ELSE [k \in {<<o>>} |-> FloatValue(y_pred[1])]

\* The items of dict b that dict a lacks or holds differently.
Added(a, b) == [k \in {q \in DOMAIN b : q \notin DOMAIN a \/ a[q] # b[q]} |-> b[k]]

\* C22: in learn_one of a ClassifierChain and of a RegressorChain, for every
\* output in the order, the prediction stored as a feature for the later
\* outputs is the one the model gave before it learned from this example: the
\* model still was as the call found it, it has learned the example's target
\* exactly once when the call returns, and the next model is given the
\* features of that earlier prediction.
C22_PredictBeforeLearn ==
    cl.op = "learn" =>
        /\ Len(cl.steps) = Len(ch.order)
        /\ \A i \in 1 .. Len(cl.steps) :
              LET o == cl.steps[i].o
              IN  /\ o = ch.order[i]
                  /\ cl.steps[i].y_pred = PredictionOf(ModelsBefore, o)
                  /\ ch.models[o].n = ModelsBefore[o].n + 1
                  /\ i < Len(cl.steps) =>
                        Added(cl.steps[i].x, cl.steps[i + 1].x)
                          = FeaturesOf(o, PredictionOf(ModelsBefore, o))

\* C22 witness: a learn_one in which the model of the first output would have
\* predicted otherwise after learning.
C22_Witness ==
    /\ cl.op = "learn"
    /\ Len(cl.steps) = 2
    /\ cl.steps[1].y_pred # PredictionOf(ch.models, cl.steps[1].o)
    /\ ModelsBefore[cl.steps[1].o].n > 0

\* C23: learn_one and the prediction call of a chain leave the caller's x and
\* y as they were, although the chain adds features for the later outputs.
C23_ArgumentsUntouched ==
    /\ cl.op \in {"learn", "predict"} => cl.x = cl.x_before
    /\ cl.op = "learn" => cl.y = cl.y_before

\* C23 witness: a call in which the second model was given more features
\* than the caller's x holds.
C23_Witness ==
    /\ cl.op \in {"learn", "predict"}
    /\ Len(cl.steps) = 2
    /\ DOMAIN cl.steps[2].x # DOMAIN cl.x_before
    /\ cl.x = cl.x_before

\* The keys of a dict with the kind of value under each.
Layout(d) == {<<k, d[k].kind>> : k \in DOMAIN d}

\* What learn_one gives the i-th model of the chain for the example x.
TrainedOn(c, x, i) ==
    Chain_learn_one(c, x, CHOOSE y \in ChainYs(c) : TRUE).steps[i].x

\* C29: in a ClassifierChain, binary or multiclass, every model is asked for
\* its prediction on features with the keys, and the kind of value under each
\* key, that learn_one gives it for the same example in the same state of the
\* chain.
C29_SameFeatureLayout ==
    (cl.op = "predict" /\ ch.kind = "classifier") =>
        \A i \in 1 .. Len(cl.steps) :
            Layout(cl.steps[i].x) = Layout(TrainedOn(ch, cl.x_before, i))

\* C29 in the binary case.
C29_BinaryLayout ==
    (cl.op = "predict" /\ ch.kind = "classifier" /\ ~ch.multiclass) =>
        \A i \in 1 .. Len(cl.steps) : cl.steps[i].x = TrainedOn(ch, cl.x_before, i)

(***************************************************************************)
(* Claims about every model.                                               *)
(***************************************************************************)
\* C24: learn_one returns the model itself, for every model and every
\* example, so that model = model.learn_one(x, y) keeps the model.
C24_LearnOneReturnsSelf ==
    /\ (tl.op = "learn" /\ ~tl.raised) => tl.returned = "self"
    /\ cl.op = "learn" => cl.returned = "self"

\* C24 for the chains alone.
C24_ChainReturnsSelf == cl.op = "learn" => cl.returned = "self"

C21_NoEarlyPromotion ==
    [][am'.promoted # am.promoted =>
          /\ am.state = "GROWING_ALTERNATE"
          /\ am'.promoted = am.promoted + 1
          /\ am'.last.op = "promote"
          /\ am'.last.alt_seen >= DriftWindowThreshold
          /\ am'.last.alt_seen = am.alt.seen + 1
          /\ am'.state = "NO_ALTERNATE"]_vars

\* C21 witness: an alternate promoted on the example that completed its window.
C21_Witness ==
    /\ am.last.op = "promote"
    /\ am.last.alt_seen = DriftWindowThreshold
    /\ am.promoted = 1

(***************************************************************************)
(* Claims about the attribute observers.                                   *)
(***************************************************************************)
\* The weight a side of the split holds for class k, 0 when k is missing.
SideWeight(dist, k) == IF k \in DOMAIN dist THEN dist[k] ELSE 0

\* C30: for every split value and every observed class k,
\* get_class_dists_from_binary_split gives the left and the right branch
\* non-negative weights that add up to the n_samples of the class; the whole
\* weight is on the right when the split value is below the class minimum and
\* on the left when it is at or above the class maximum.
C30_WeightConservation ==
    oq.op = "split" =>
        \A k \in DOMAIN ob.n_samples :
            /\ SideWeight(oq.lhs_dist, k) >= 0
            /\ SideWeight(oq.rhs_dist, k) >= 0
            /\ SideWeight(oq.lhs_dist, k) + SideWeight(oq.rhs_dist, k)
                 = ob.n_samples[k] * Scale
            /\ oq.split_value < ob.min_per_class[k] =>
                 /\ k \notin DOMAIN oq.lhs_dist
                 /\ oq.rhs_dist[k] = ob.n_samples[k] * Scale
            /\ oq.split_value >= ob.max_per_class[k] =>
                 /\ k \notin DOMAIN oq.rhs_dist
                 /\ oq.lhs_dist[k] = ob.n_samples[k] * Scale

\* C30 witness: a split value below the values of one class, above those of
\* another, and, after more updates, between those of a class.
C30_Witness ==
    /\ oq.op = "split"
    /\ DOMAIN ob.n_samples = {1, 2}
    /\ oq.split_value >= ob.min_per_class[1]
    /\ oq.split_value < ob.max_per_class[1]
    /\ oq.split_value < ob.min_per_class[2]
    /\ oq.lhs_dist[1] > 0
    /\ oq.rhs_dist[1] > 0

(***************************************************************************)
(* Determinism.                                                            *)
(***************************************************************************)
\* The configuration leaves nothing to chance.
Deterministic == ~tw.bootstrap_sampling \/ tw.random_state # None

UnseededTwinsAgree == tw.a.T = tw.b.T
====
